---- MODULE Spec2Model ----
(***************************************************************************)
(* Streamed CAT driver: the vesting formula, the solution and puzzle      *)
(* codecs and the replay step StreamedCat::from_parent_spend, as a state   *)
(* machine over one coin lineage (launch, claims, clawback).               *)
(*                                                                         *)
(* u64 values keep a fixed width: a word is WordBytes bytes of ByteBits    *)
(* bits each.  Rust's u64 +,-,* either wrap (release profile) or panic     *)
(* (overflow checks on, the debug and test profile); the profile is the    *)
(* variable overflow_checks, chosen once in Init.                          *)
(***************************************************************************)
EXTENDS Integers, Sequences, FiniteSets, TLC

\* ------------------------------------------------------------------ bounds
ByteBits == 2
WordBytes == 2
HashBytes == 2
MaxTime == 3
MaxClaims == 2

Width == ByteBits * WordBytes
ByteModulus == 2^ByteBits
U64Modulus == 2^Width
U64Max == U64Modulus - 1

\* ----------------------------------------------------------- Option, Result
None == <<>>
Some(x) == <<x>>
IsSome(o) == Len(o) = 1
Unwrap(o) == o[1]

Ok(v) == [tag |-> "Ok", val |-> v]
Err(e) == [tag |-> "Err", val |-> e]
Panic == [tag |-> "Panic", val |-> "panic"]
IsOk(r) == r.tag = "Ok"

\* ------------------------------------------------------- checked u64 maths
\* a - b on u64: wraps, or panics when overflow checks are on
U64Sub(a, b, checks) ==
    IF a >= b THEN Ok(a - b)
    ELSE IF checks THEN Panic ELSE Ok((a - b) % U64Modulus)

\* a * b on u64: wraps, or panics when overflow checks are on
U64Mul(a, b, checks) ==
    IF a * b <= U64Max THEN Ok(a * b)
    ELSE IF checks THEN Panic ELSE Ok((a * b) % U64Modulus)

\* a + b on u64: wraps, or panics when overflow checks are on
U64Add(a, b, checks) ==
    IF a + b <= U64Max THEN Ok(a + b)
    ELSE IF checks THEN Panic ELSE Ok((a + b) % U64Modulus)

\* a / b on u64: truncating; division by zero panics in every profile
U64Div(a, b) ==
    IF b = 0 THEN Panic ELSE Ok(a \div b)

\* ------------------------------------------------------------------ bytes
\* Bytes are sequences over 0..ByteModulus-1; a Bytes32 is HashBytes of them.
RECURSIVE BeBytes(_)
\* big-endian digits of n without leading zeros (0 is the empty string)
BeBytes(n) ==
    IF n = 0 THEN <<>> ELSE Append(BeBytes(n \div ByteModulus), n % ByteModulus)

\* chia u64_to_bytes: the minimal big-endian two's-complement encoding, so a
\* value whose top bit is set gets a leading zero byte
u64_to_bytes(val) ==
    LET b == BeBytes(val)
    IN  IF b # <<>> /\ b[1] >= ByteModulus \div 2 THEN <<0>> \o b ELSE b

RECURSIVE u64_from_bytes(_)
\* clvmr u64_from_bytes: ret <<= 8; ret |= b, for every byte (high bits fall off)
u64_from_bytes(buf) ==
    IF buf = <<>> THEN 0
    ELSE LET ret == u64_from_bytes(SubSeq(buf, 1, Len(buf) - 1))
         IN  ((ret * ByteModulus) % U64Modulus) + buf[Len(buf)]

\* Bytes32::try_from(Bytes): only a string of exactly 32 bytes converts
Bytes32_try_from(b) ==
    IF Len(b) = HashBytes THEN Ok(b) ELSE Err("TryFromSlice")

\* ------------------------------------------------------------- CLVM values
Atom(b) == <<"a", b>>
Pair(f, r) == <<"p", f, r>>
Nil == Atom(<<>>)
\* an atom holding a 32-byte hash (kept as the term it commits to)
HashAtom(h) == <<"h", h>>
\* a proper, nil-terminated list of nodes
List(items) == <<"l", items>>
IsAtom(n) == n[1] = "a"
IsPair(n) == n[1] = "p"

\* Bytes32 as FromClvm: an atom of exactly 32 bytes
Bytes32_from_clvm(n) ==
    IF n[1] = "h" THEN Ok(n[2])
    ELSE IF ~IsAtom(n) THEN Err("ExpectedAtom")
    ELSE IF Len(n[2]) = HashBytes THEN Ok(n[2]) ELSE Err("WrongAtomLength")

\* Option<Bytes32> as FromClvm: nil is None
OptionBytes32_from_clvm(n) ==
    IF n = Nil THEN Ok(<<>>) ELSE Bytes32_from_clvm(n)

\* a slip: the integer written without the sign byte
u64_to_clvm_unsigned(v) == Atom(BeBytes(v))

\* u64 as ToClvm / FromClvm: an unsigned integer atom of at most 8 bytes
u64_to_clvm(v) == Atom(u64_to_bytes(v))
u64_from_clvm(n) ==
    IF ~IsAtom(n) THEN Err("ExpectedAtom")
    ELSE LET b == n[2]
         IN  IF b = <<>> THEN Ok(0)
             ELSE IF b[1] >= ByteModulus \div 2 THEN Err("Negative")
             ELSE IF Len(b) > WordBytes + 1 THEN Err("WrongAtomLength")
             ELSE IF Len(b) = WordBytes + 1 /\ b[1] # 0 THEN Err("WrongAtomLength")
             ELSE Ok(u64_from_bytes(b))

\* a slip: the flag always encoded as false
bool_to_clvm_always_nil(v) == Nil

\* a slip: end_time and last_payment_time taken from each other's place
StreamLayer_new_times_swapped(recipient, clawback_ph, end_time, last_payment_time) ==
    [recipient |-> recipient, clawback_ph |-> clawback_ph,
     end_time |-> last_payment_time, last_payment_time |-> end_time]

\* bool as ToClvm / FromClvm: nil is false, the atom 1 is true
bool_to_clvm(v) == IF v THEN Atom(<<1>>) ELSE Nil
bool_from_clvm(n) ==
    IF ~IsAtom(n) THEN Err("ExpectedAtom")
    ELSE IF n[2] = <<>> THEN Ok(FALSE)
    ELSE IF n[2] = <<1>> THEN Ok(TRUE)
    ELSE Err("Custom")

\* ---------------------------------------------------------------- hashing
\* Tree hashes are modelled as the (collision-free) term they commit to.
STREAM_PUZZLE_HASH == <<"mod", "262bdc6b4dfdf82af2ae7a0ea0aae8e52cf4f684841663a4edef37f118d48f34">>
OTHER_MOD_HASH == <<"mod", "other">>
CAT_PUZZLE_HASH == <<"mod", "cat_v2">>
P2_MOD_HASH == <<"mod", "p2_delegated_puzzle_or_hidden_puzzle">>

\* Puzzles: an uncurried module, or a program curried with a list of arguments
Raw(mod_hash) == <<"raw", mod_hash>>
Curried(program, args) == <<"curried", program, args>>
IsCurried(p) == p[1] = "curried"

RECURSIVE tree_hash(_)
\* clvm_utils::tree_hash of a puzzle: the module hash, or the curry of the
\* program's hash with the argument atoms
tree_hash(p) ==
    IF ~IsCurried(p) THEN p[2]
    ELSE IF p[2] = Raw(CAT_PUZZLE_HASH)
         THEN <<"cat", p[3][1][2], tree_hash(p[3][2])>>
         ELSE <<"curry", tree_hash(p[2])>> \o [i \in 1..Len(p[3]) |-> p[3][i][2]]

StreamPuzzle1stCurryArgs_curry_tree_hash(recipient, clawback_ph, end_time) ==
    <<"curry", STREAM_PUZZLE_HASH, recipient, clawback_ph, u64_to_bytes(end_time)>>

\* a slip: the second stage curried over the module instead of the first stage
StreamPuzzle2ndCurryArgs_curry_tree_hash_over_module(recipient, clawback_ph, end_time, last_payment_time) ==
    LET self_hash == StreamPuzzle1stCurryArgs_curry_tree_hash(recipient, clawback_ph, end_time)
    IN  <<"curry", STREAM_PUZZLE_HASH, self_hash, u64_to_bytes(last_payment_time)>>

StreamPuzzle2ndCurryArgs_curry_tree_hash(recipient, clawback_ph, end_time, last_payment_time) ==
    LET self_hash == StreamPuzzle1stCurryArgs_curry_tree_hash(recipient, clawback_ph, end_time)
    IN  <<"curry", self_hash, self_hash, u64_to_bytes(last_payment_time)>>

StreamLayer_new(recipient, clawback_ph, end_time, last_payment_time) ==
    [recipient |-> recipient, clawback_ph |-> clawback_ph,
     end_time |-> end_time, last_payment_time |-> last_payment_time]

StreamLayer_puzzle_hash(layer) ==
    StreamPuzzle2ndCurryArgs_curry_tree_hash(
        layer.recipient, layer.clawback_ph, layer.end_time, layer.last_payment_time)

CatArgs_curry_tree_hash(asset_id, inner_puzzle_hash) ==
    <<"cat", asset_id, inner_puzzle_hash>>

Coin_new(parent_coin_info, puzzle_hash, amount) ==
    [parent_coin_info |-> parent_coin_info, puzzle_hash |-> puzzle_hash, amount |-> amount]

coin_id(coin) == <<"coin", coin.parent_coin_info, coin.puzzle_hash, coin.amount>>

\* ------------------------------------------------------------ StreamLayer
\* #[clvm(curry)] StreamPuzzle1stCurryArgs { recipient, clawback_ph, end_time }
StreamPuzzle1stCurryArgs_to_clvm(recipient, clawback_ph, end_time) ==
    <<Atom(recipient), Atom(clawback_ph), u64_to_clvm(end_time)>>

StreamPuzzle1stCurryArgs_from_clvm(args) ==
    IF Len(args) # 3 THEN Err("FromClvm")
    ELSE LET r == Bytes32_from_clvm(args[1])
             c == OptionBytes32_from_clvm(args[2])
             e == u64_from_clvm(args[3])
         IN  IF IsOk(r) /\ IsOk(c) /\ IsOk(e)
             THEN Ok([recipient |-> r.val, clawback_ph |-> c.val, end_time |-> e.val])
             ELSE Err("FromClvm")

\* a slip: the two arguments curried in the other order
StreamPuzzle2ndCurryArgs_to_clvm_swapped(self_hash, last_payment_time) ==
    <<u64_to_clvm(last_payment_time), HashAtom(self_hash)>>

\* #[clvm(curry)] StreamPuzzle2ndCurryArgs { self_hash, last_payment_time }
StreamPuzzle2ndCurryArgs_to_clvm(self_hash, last_payment_time) ==
    <<HashAtom(self_hash), u64_to_clvm(last_payment_time)>>

StreamPuzzle2ndCurryArgs_from_clvm(args) ==
    IF Len(args) # 2 THEN Err("FromClvm")
    ELSE LET h == Bytes32_from_clvm(args[1])
             t == u64_from_clvm(args[2])
         IN  IF IsOk(h) /\ IsOk(t)
             THEN Ok([self_hash |-> h.val, last_payment_time |-> t.val])
             ELSE Err("FromClvm")

\* Layer::construct_puzzle: the module curried with the first-stage arguments,
\* curried again with its own hash and last_payment_time
StreamLayer_construct_puzzle(layer) ==
    LET puzzle_1st_curry ==
            Curried(Raw(STREAM_PUZZLE_HASH),
                    StreamPuzzle1stCurryArgs_to_clvm(layer.recipient, layer.clawback_ph, layer.end_time))
        self_hash ==
            StreamPuzzle1stCurryArgs_curry_tree_hash(layer.recipient, layer.clawback_ph, layer.end_time)
    IN  Curried(puzzle_1st_curry,
                StreamPuzzle2ndCurryArgs_to_clvm(self_hash, layer.last_payment_time))

\* a slip: a foreign module under the stream's shape reported as no match
check_mod_hash_as_no_match(mod_hash, layer) ==
    IF mod_hash # STREAM_PUZZLE_HASH THEN Ok(None) ELSE Ok(Some(layer))

\* if puzzle_1st_curry.mod_hash != STREAM_PUZZLE_HASH { return Err(InvalidModHash) }
check_mod_hash(mod_hash, layer) ==
    IF mod_hash # STREAM_PUZZLE_HASH THEN Err("InvalidModHash") ELSE Ok(Some(layer))

\* Layer::parse_puzzle: Ok(None) unless the puzzle is a program curried twice
\* whose two argument lists decode; then the innermost module hash decides
\* between Err(InvalidModHash) and Ok(Some(layer))
StreamLayer_parse_puzzle(puzzle_2nd_curry) ==
    IF ~IsCurried(puzzle_2nd_curry) THEN Ok(None)
    ELSE LET puzzle_1st_curry == puzzle_2nd_curry[2]
         IN  IF ~IsCurried(puzzle_1st_curry) THEN Ok(None)
             ELSE LET args1 == StreamPuzzle1stCurryArgs_from_clvm(puzzle_1st_curry[3])
                      args2 == StreamPuzzle2ndCurryArgs_from_clvm(puzzle_2nd_curry[3])
                  IN  IF ~IsOk(args1) THEN Ok(None)
                      ELSE IF ~IsOk(args2) THEN Ok(None)
                      ELSE check_mod_hash(tree_hash(puzzle_1st_curry[2]),
                               StreamLayer_new(args1.val.recipient, args1.val.clawback_ph,
                                               args1.val.end_time, args2.val.last_payment_time))

\* #[clvm(list)] StreamPuzzleSolution { my_amount, payment_time, to_pay, #[clvm(rest)] clawback }
StreamPuzzleSolution_to_clvm(sol) ==
    Pair(u64_to_clvm(sol.my_amount),
         Pair(u64_to_clvm(sol.payment_time),
              Pair(u64_to_clvm(sol.to_pay), bool_to_clvm(sol.clawback))))

StreamPuzzleSolution_from_clvm(n) ==
    IF ~IsPair(n) THEN Err("FromClvm")
    ELSE IF ~IsPair(n[3]) THEN Err("FromClvm")
    ELSE IF ~IsPair(n[3][3]) THEN Err("FromClvm")
    ELSE LET a == u64_from_clvm(n[2])
             t == u64_from_clvm(n[3][2])
             p == u64_from_clvm(n[3][3][2])
             c == bool_from_clvm(n[3][3][3])
         IN  IF IsOk(a) /\ IsOk(t) /\ IsOk(p) /\ IsOk(c)
             THEN Ok([my_amount |-> a.val, payment_time |-> t.val,
                      to_pay |-> p.val, clawback |-> c.val])
             ELSE Err("FromClvm")

\* Layer::construct_solution and Layer::parse_solution of StreamLayer
StreamLayer_construct_solution(solution) == Ok(StreamPuzzleSolution_to_clvm(solution))

StreamLayer_parse_solution(solution) == StreamPuzzleSolution_from_clvm(solution)

\* ---------------------------------------------------------------- CatLayer
CatPuzzle(asset_id, inner_puzzle) ==
    Curried(Raw(CAT_PUZZLE_HASH), <<HashAtom(asset_id), inner_puzzle>>)

\* CatLayer::<NodePtr>::parse_puzzle: Some(asset_id, inner puzzle) for a CAT
CatLayer_parse_puzzle(puzzle) ==
    IF ~IsCurried(puzzle) THEN Ok(None)
    ELSE IF tree_hash(puzzle[2]) # CAT_PUZZLE_HASH THEN Ok(None)
    ELSE Ok(Some([asset_id |-> puzzle[3][1][2], inner_puzzle |-> puzzle[3][2]]))

\* CatLayer::<StreamLayer>::parse_puzzle: the CAT layer, then the inner layer;
\* an inner error propagates, an inner None is None
CatStreamLayer_parse_puzzle(puzzle) ==
    LET cat == CatLayer_parse_puzzle(puzzle)
    IN  IF ~IsSome(cat.val) THEN Ok(None)
        ELSE LET inner == StreamLayer_parse_puzzle(Unwrap(cat.val).inner_puzzle)
             IN  IF ~IsOk(inner) THEN inner
                 ELSE IF ~IsSome(inner.val) THEN Ok(None)
                 ELSE Ok(Some([asset_id |-> Unwrap(cat.val).asset_id,
                               inner_puzzle |-> Unwrap(inner.val)]))

\* CatSolution<I>: the inner solution followed by the CAT ring fields
CatSolution_to_clvm(inner_node, ring) == Pair(inner_node, <<"ring", ring>>)

CatSolution_from_clvm(n) ==
    IF ~IsPair(n) THEN Err("FromClvm")
    ELSE IF n[3][1] # "ring" THEN Err("FromClvm")
    ELSE LET inner == StreamPuzzleSolution_from_clvm(n[2])
         IN  IF ~IsOk(inner) THEN Err("FromClvm")
             ELSE Ok([inner_puzzle_solution |-> inner.val, ring |-> n[3][2]])

\* ------------------------------------------------------------ StreamedCat
StreamedCat_new(coin, asset_id, proof, recipient, clawback_ph, end_time, last_payment_time) ==
    [coin |-> coin,
     asset_id |-> asset_id,
     proof |-> proof,
     inner_puzzle_hash |->
        StreamLayer_puzzle_hash(StreamLayer_new(recipient, clawback_ph, end_time, last_payment_time)),
     recipient |-> recipient,
     clawback_ph |-> clawback_ph,
     end_time |-> end_time,
     last_payment_time |-> last_payment_time]

\* a slip: the quotient rounded up instead of truncated
amount_to_be_paid_rounded_up(self, payment_time, checks) ==
    LET elapsed == U64Sub(payment_time, self.last_payment_time, checks)
        duration == U64Sub(self.end_time, self.last_payment_time, checks)
    IN  IF ~IsOk(elapsed) \/ ~IsOk(duration) THEN Panic
        ELSE LET product == U64Mul(self.coin.amount, elapsed.val, checks)
             IN  IF ~IsOk(product) THEN Panic
                 ELSE IF duration.val = 0 THEN Panic
                 ELSE Ok((product.val + duration.val - 1) \div duration.val)

\* self.coin.amount * (payment_time - self.last_payment_time)
\*     / (self.end_time - self.last_payment_time)
amount_to_be_paid(self, payment_time, checks) ==
    LET elapsed == U64Sub(payment_time, self.last_payment_time, checks)
    IN  IF ~IsOk(elapsed) THEN Panic
        ELSE LET product == U64Mul(self.coin.amount, elapsed.val, checks)
             IN  IF ~IsOk(product) THEN Panic
                 ELSE LET duration == U64Sub(self.end_time, self.last_payment_time, checks)
                      IN  IF ~IsOk(duration) THEN Panic
                          ELSE U64Div(product.val, duration.val)

\* self.layers().construct_puzzle(ctx)
StreamedCat_construct_puzzle(self) ==
    CatPuzzle(self.asset_id,
              StreamLayer_construct_puzzle(
                  StreamLayer_new(self.recipient, self.clawback_ph, self.end_time, self.last_payment_time)))

\* the CAT solution wrapping {my_amount, payment_time, to_pay, clawback}
construct_solution(self, payment_time, clawback, checks) ==
    LET to_pay == amount_to_be_paid(self, payment_time, checks)
    IN  IF ~IsOk(to_pay) THEN Panic
        ELSE Ok(CatSolution_to_clvm(
                 StreamPuzzleSolution_to_clvm(
                     [my_amount |-> self.coin.amount, payment_time |-> payment_time,
                      to_pay |-> to_pay.val, clawback |-> clawback]),
                 [lineage_proof |-> Some(self.proof),
                  prev_coin_id |-> coin_id(self.coin),
                  this_coin_info |-> self.coin,
                  next_coin_proof |-> [parent_coin_info |-> self.coin.parent_coin_info,
                                       inner_puzzle_hash |-> self.inner_puzzle_hash,
                                       amount |-> self.coin.amount],
                  prev_subtotal |-> 0,
                  extra_delta |-> 0]))

\* --------------------------------------------- from_parent_spend: launch
\* Conditions of a spend: <<"CreateCoin", puzzle_hash, amount, memos>> with
\* memos an Option of a CLVM node, or <<"Other">>.
CreateCoin(puzzle_hash, amount, memos) == <<"CreateCoin", puzzle_hash, amount, memos>>
OtherCondition == <<"Other">>

\* run_puzzle + Conditions::from_clvm: what the parent puzzle outputs for the
\* parent solution, or the evaluation error
run_puzzle(puzzle, solution) ==
    IF solution[1] = "output" THEN solution[2] ELSE Err("Eval")

\* Vec::<Bytes>::from_clvm: a nil-terminated list of atoms
VecBytes_from_clvm(n) ==
    IF n = Nil THEN Ok(<<>>)
    ELSE IF n[1] # "l" THEN Err("FromClvm")
    ELSE IF \E i \in 1..Len(n[2]) : ~IsAtom(n[2][i]) THEN Err("FromClvm")
    ELSE Ok([i \in 1..Len(n[2]) |-> n[2][i][2]])

\* the four fields read at offset off (0 for 4 memos, 1 for 5 memos); None
\* where the code says continue
memo_fields(memos, off) ==
    LET recipient_b64 == Bytes32_try_from(memos[off + 1])
        clawback_ph_b64 ==
            IF memos[off + 2] = <<>> THEN Ok(<<>>) ELSE Bytes32_try_from(memos[off + 2])
    IN  IF ~IsOk(recipient_b64) THEN None
        ELSE IF ~IsOk(clawback_ph_b64) THEN None
        ELSE Some([recipient |-> recipient_b64.val,
                   clawback_ph |-> clawback_ph_b64.val,
                   last_payment_time |-> u64_from_bytes(memos[off + 3]),
                   end_time |-> u64_from_bytes(memos[off + 4])])

\* a slip: five memos read from the first memo on, like four
decode_memos_from_first(memos) ==
    IF Len(memos) < 4 \/ Len(memos) > 5 THEN None ELSE memo_fields(memos, 0)

decode_memos(memos) ==
    IF Len(memos) < 4 \/ Len(memos) > 5 THEN None
    ELSE IF Len(memos) = 4 THEN memo_fields(memos, 0)
    ELSE memo_fields(memos, 1)

\* the candidate check: the recomputed CAT-wrapped commitment must equal the
\* created coin's puzzle hash
candidate_puzzle_hash(asset_id, f) ==
    CatArgs_curry_tree_hash(asset_id,
        StreamLayer_puzzle_hash(
            StreamLayer_new(f.recipient, f.clawback_ph, f.end_time, f.last_payment_time)))

\* a slip: the memos trusted without comparing the commitment
launch_accepts_memos_unchecked(cc_puzzle_hash, asset_id, f) == TRUE

\* if cc.puzzle_hash != candidate_puzzle_hash.into() { continue; }
launch_accepts(cc_puzzle_hash, asset_id, f) ==
    cc_puzzle_hash = candidate_puzzle_hash(asset_id, f)

\* a slip: the created coin's amount put into the lineage proof
launched_stream_proof_of_child(parent_coin, parent_layer, cc_amount, f) ==
    StreamedCat_new(
        Coin_new(coin_id(parent_coin), candidate_puzzle_hash(parent_layer.asset_id, f), cc_amount),
        parent_layer.asset_id,
        [parent_parent_coin_info |-> parent_coin.parent_coin_info,
         parent_inner_puzzle_hash |-> tree_hash(parent_layer.inner_puzzle),
         parent_amount |-> cc_amount],
        f.recipient, f.clawback_ph, f.end_time, f.last_payment_time)

launched_stream(parent_coin, parent_layer, cc_amount, f) ==
    StreamedCat_new(
        Coin_new(coin_id(parent_coin), candidate_puzzle_hash(parent_layer.asset_id, f), cc_amount),
        parent_layer.asset_id,
        [parent_parent_coin_info |-> parent_coin.parent_coin_info,
         parent_inner_puzzle_hash |-> tree_hash(parent_layer.inner_puzzle),
         parent_amount |-> parent_coin.amount],
        f.recipient, f.clawback_ph, f.end_time, f.last_payment_time)

RECURSIVE scan_conditions_first_wins(_, _, _, _, _)
\* a slip: the first validating coin kept, later ones passed over
scan_conditions_first_wins(conds, i, found, parent_coin, parent_layer) ==
    IF i > Len(conds) THEN Ok(found)
    ELSE LET cond == conds[i]
             skip == scan_conditions_first_wins(conds, i + 1, found, parent_coin, parent_layer)
         IN  IF cond[1] # "CreateCoin" THEN skip
             ELSE IF ~IsSome(cond[4]) THEN skip
             ELSE LET memos == VecBytes_from_clvm(Unwrap(cond[4]))
                  IN  IF ~IsOk(memos) THEN Err("FromClvm")
                      ELSE LET f == decode_memos(memos.val)
                           IN  IF ~IsSome(f) THEN skip
                               ELSE IF ~launch_accepts(cond[2], parent_layer.asset_id, Unwrap(f))
                               THEN skip
                               ELSE IF IsSome(found) THEN skip
                               ELSE scan_conditions_first_wins(conds, i + 1,
                                        Some(launched_stream(parent_coin, parent_layer, cond[3],
                                                             Unwrap(f))),
                                        parent_coin, parent_layer)

RECURSIVE scan_conditions(_, _, _, _, _)
\* the loop over the conditions: Ok(found_stream_layer), or the decode error
\* of a memo payload
scan_conditions(conds, i, found, parent_coin, parent_layer) ==
    IF i > Len(conds) THEN Ok(found)
    ELSE LET cond == conds[i]
         IN  IF cond[1] # "CreateCoin"
             THEN scan_conditions(conds, i + 1, found, parent_coin, parent_layer)
             ELSE IF ~IsSome(cond[4])
             THEN scan_conditions(conds, i + 1, found, parent_coin, parent_layer)
             ELSE LET memos == VecBytes_from_clvm(Unwrap(cond[4]))
                  IN  IF ~IsOk(memos) THEN Err("FromClvm")
                      ELSE LET f == decode_memos(memos.val)
                           IN  IF ~IsSome(f)
                               THEN scan_conditions(conds, i + 1, found, parent_coin, parent_layer)
                               ELSE IF ~launch_accepts(cond[2], parent_layer.asset_id, Unwrap(f))
                               THEN scan_conditions(conds, i + 1, found, parent_coin, parent_layer)
                               ELSE scan_conditions(conds, i + 1,
                                        Some(launched_stream(parent_coin, parent_layer, cond[3], Unwrap(f))),
                                        parent_coin, parent_layer)

\* a slip: the launching coin's amount reported in the paid-amount slot
from_parent_spend_launch_reports_amount(parent_coin, parent_puzzle, parent_solution) ==
    LET output == run_puzzle(parent_puzzle, parent_solution)
    IN  IF ~IsOk(output) THEN output
        ELSE LET parent_layer == CatLayer_parse_puzzle(parent_puzzle)
             IN  IF ~IsSome(parent_layer.val) THEN Ok(<<None, FALSE, 0>>)
                 ELSE LET found == scan_conditions(output.val, 1, None, parent_coin,
                                                   Unwrap(parent_layer.val))
                      IN  IF ~IsOk(found) THEN found
                          ELSE Ok(<<found.val, FALSE, parent_coin.amount>>)

from_parent_spend_launch(parent_coin, parent_puzzle, parent_solution) ==
    LET output == run_puzzle(parent_puzzle, parent_solution)
    IN  IF ~IsOk(output) THEN output
        ELSE LET parent_layer == CatLayer_parse_puzzle(parent_puzzle)
             IN  IF ~IsSome(parent_layer.val) THEN Ok(<<None, FALSE, 0>>)
                 ELSE LET found == scan_conditions(output.val, 1, None, parent_coin,
                                                   Unwrap(parent_layer.val))
                      IN  IF ~IsOk(found) THEN found
                          ELSE Ok(<<found.val, FALSE, 0>>)

\* ---------------------------------------------- from_parent_spend: replay
\* a slip: the payment not taken off the successor's amount
claim_new_amount_not_reduced(parent_coin, sol, checks) == Ok(parent_coin.amount)

\* let new_amount = parent_coin.amount - parent_solution.inner_puzzle_solution.to_pay;
claim_new_amount(parent_coin, sol, checks) ==
    U64Sub(parent_coin.amount, sol.to_pay, checks)

\* a slip: the clawback flag of the solution not looked at
solution_is_clawback_ignored(sol) == FALSE

\* if parent_solution.inner_puzzle_solution.clawback { return Ok((None, true, to_pay)) }
solution_is_clawback(sol) == sol.clawback

\* a slip: recipient and clawback hash taken from each other's place
claim_carries_over_swapped(layers) ==
    [asset_id |-> layers.asset_id, recipient |-> layers.inner_puzzle.clawback_ph,
     clawback_ph |-> layers.inner_puzzle.recipient, end_time |-> layers.inner_puzzle.end_time]

\* what the successor takes over from the parsed parent puzzle: layers.asset_id,
\* layers.inner_puzzle.recipient, .clawback_ph and .end_time
claim_carries_over(layers) ==
    [asset_id |-> layers.asset_id, recipient |-> layers.inner_puzzle.recipient,
     clawback_ph |-> layers.inner_puzzle.clawback_ph, end_time |-> layers.inner_puzzle.end_time]

\* a slip: a solution that does not decode reported as no match
propagate_decode_error_as_no_match(solution) == Ok(<<None, FALSE, 0>>)

\* the ? of CatSolution::<StreamPuzzleSolution>::from_clvm(allocator, parent_solution)?
propagate_decode_error(solution) == solution

from_parent_spend_claim(parent_coin, layers, parent_solution, checks) ==
    LET proof == [parent_parent_coin_info |-> parent_coin.parent_coin_info,
                  parent_inner_puzzle_hash |-> StreamLayer_puzzle_hash(layers.inner_puzzle),
                  parent_amount |-> parent_coin.amount]
        solution == CatSolution_from_clvm(parent_solution)
    IN  IF ~IsOk(solution) THEN propagate_decode_error(solution)
        ELSE IF solution_is_clawback(solution.val.inner_puzzle_solution)
        THEN Ok(<<None, TRUE, solution.val.inner_puzzle_solution.to_pay>>)
        ELSE LET new_amount == claim_new_amount(parent_coin,
                                                solution.val.inner_puzzle_solution, checks)
                 kept == claim_carries_over(layers)
                 new_inner_layer ==
                     StreamLayer_new(kept.recipient,
                                     kept.clawback_ph,
                                     kept.end_time,
                                     solution.val.inner_puzzle_solution.payment_time)
                 new_puzzle_hash ==
                     CatArgs_curry_tree_hash(kept.asset_id, StreamLayer_puzzle_hash(new_inner_layer))
             IN  IF ~IsOk(new_amount) THEN Panic
                 ELSE Ok(<<Some(StreamedCat_new(
                               Coin_new(coin_id(parent_coin), new_puzzle_hash, new_amount.val),
                               kept.asset_id,
                               proof,
                               kept.recipient,
                               kept.clawback_ph,
                               kept.end_time,
                               solution.val.inner_puzzle_solution.payment_time)),
                           FALSE, 0>>)

\* Result<(Option<Self>, bool, u64), DriverError>, or a panic
from_parent_spend(parent_coin, parent_puzzle, parent_solution, checks) ==
    LET layers == CatStreamLayer_parse_puzzle(parent_puzzle)
    IN  IF ~IsOk(layers) THEN layers
        ELSE IF ~IsSome(layers.val)
        THEN from_parent_spend_launch(parent_coin, parent_puzzle, parent_solution)
        ELSE from_parent_spend_claim(parent_coin, Unwrap(layers.val), parent_solution, checks)


\* pub fn get_launch_hints(recipient, clawback_ph, start_time, end_time) -> Vec<Bytes>
get_launch_hints(recipient, clawback_ph, start_time, end_time) ==
    <<recipient, clawback_ph, u64_to_bytes(start_time), u64_to_bytes(end_time)>>

\* ------------------------------------------------------------- the ledger
\* What the deployed puzzle (STREAM_PUZZLE) asserts of a spend, in CLVM's
\* unbounded integers: to_pay = my_amount * (payment_time - LAST) / (END - LAST),
\* ASSERT_MY_AMOUNT my_amount, and two CREATE_COINs of to_pay and of
\* my_amount - to_pay, neither negative; on a clawback the second goes to
\* CLAWBACK_PH, which must be a puzzle hash.
FloorDiv(n, d) == IF d > 0 THEN n \div d ELSE (0 - n) \div (0 - d)

stream_puzzle_accepts(self, sol) ==
    /\ self.end_time # self.last_payment_time
    /\ sol.my_amount = self.coin.amount
    /\ sol.to_pay = FloorDiv(sol.my_amount * (sol.payment_time - self.last_payment_time),
                             self.end_time - self.last_payment_time)
    /\ sol.to_pay >= 0
    /\ sol.my_amount - sol.to_pay >= 0
    /\ sol.clawback => self.clawback_ph # None

\* --------------------------------------------------------- input domains
Alice == [i \in 1..HashBytes |-> 1]
Carol == [i \in 1..HashBytes |-> 2]
Mallory == [i \in 1..HashBytes |-> 3]
AssetId == <<"asset", "cat">>
GenesisId == <<"coin", "genesis">>
P2Puzzle == Curried(Raw(P2_MOD_HASH), <<Atom(<<1>>)>>)

StartTimes == {0, 1, MaxTime}
EndTimes == {0, MaxTime - 1, MaxTime}
ClaimTimes == 0..(MaxTime + 1)
Amounts == {0, 7, U64Max}

\* the parameters a launching transaction commits to
Params == [recipient : {Alice}, clawback_ph : {None, Carol},
           last_payment_time : StartTimes, end_time : EndTimes]

\* the memos attached to the created coin, as a CLVM node (or no memos at all)
MemoShapes == {"hints4", "hints5", "forged_recipient", "forged_end", "forged_start",
               "three", "six", "bad_recipient", "bad_clawback", "none", "not_a_list"}

HintNode(memos) == List([i \in 1..Len(memos) |-> Atom(memos[i])])

Memos(shape, f) ==
    LET hints == get_launch_hints(f.recipient, f.clawback_ph, f.last_payment_time, f.end_time)
    IN  CASE shape = "hints4" -> Some(HintNode(hints))
          [] shape = "hints5" -> Some(HintNode(<<f.recipient>> \o hints))
          [] shape = "forged_recipient" ->
                Some(HintNode(get_launch_hints(Mallory, f.clawback_ph, f.last_payment_time, f.end_time)))
          [] shape = "forged_end" ->
                Some(HintNode(get_launch_hints(f.recipient, f.clawback_ph, f.last_payment_time,
                                               f.end_time + 1)))
          [] shape = "forged_start" ->
                Some(HintNode(get_launch_hints(f.recipient, f.clawback_ph, f.last_payment_time + 1,
                                               f.end_time)))
          [] shape = "three" -> Some(HintNode(SubSeq(hints, 1, 3)))
          [] shape = "six" -> Some(HintNode(<<f.recipient, f.recipient>> \o hints))
          [] shape = "bad_recipient" ->
                Some(HintNode(<<Append(f.recipient, 0), hints[2], hints[3], hints[4]>>))
          [] shape = "bad_clawback" ->
                Some(HintNode(<<hints[1], <<1>>, hints[3], hints[4]>>))
          [] shape = "none" -> None
          [] OTHER -> Some(Atom(<<1>>))

\* a CREATE_COIN of a CAT spend: the coin's puzzle hash commits to f, the
\* memos are whatever the spender attached
StreamCoin(f, amount, shape) ==
    CreateCoin(CatArgs_curry_tree_hash(AssetId,
                   StreamLayer_puzzle_hash(
                       StreamLayer_new(f.recipient, f.clawback_ph, f.end_time, f.last_payment_time))),
               amount, Memos(shape, f))

ParentPuzzles == {"cat", "p2"}
ParentPuzzle(kind) == IF kind = "cat" THEN CatPuzzle(AssetId, P2Puzzle) ELSE P2Puzzle

\* what else the launching spend outputs after the first created coin
Seconds == {"no", "other", "stream", "eval_error"}

ParentOutput(f, amount, shape, second) ==
    CASE second = "eval_error" -> Err("Eval")
      [] second = "no" -> Ok(<<StreamCoin(f, amount, shape)>>)
      [] second = "other" -> Ok(<<StreamCoin(f, amount, shape), OtherCondition>>)
      [] OTHER -> Ok(<<StreamCoin(f, amount, shape),
                       StreamCoin([f EXCEPT !.recipient = Mallory], 1, "hints4")>>)

\* puzzles that look like a stream coin's without being one
ForgedShapes == {"wrong_mod", "curried_once", "bad_args1", "bad_args2", "not_a_cat"}

ForgedPuzzle(shape, f) ==
    LET args1 == StreamPuzzle1stCurryArgs_to_clvm(f.recipient, f.clawback_ph, f.end_time)
        args2 == StreamPuzzle2ndCurryArgs_to_clvm(
                     StreamPuzzle1stCurryArgs_curry_tree_hash(f.recipient, f.clawback_ph, f.end_time),
                     f.last_payment_time)
        two_stage(mod, a1, a2) == Curried(Curried(Raw(mod), a1), a2)
    IN  CASE shape = "wrong_mod" -> CatPuzzle(AssetId, two_stage(OTHER_MOD_HASH, args1, args2))
          [] shape = "curried_once" -> CatPuzzle(AssetId, Curried(Raw(OTHER_MOD_HASH), args2))
          [] shape = "bad_args1" ->
                CatPuzzle(AssetId, two_stage(OTHER_MOD_HASH, <<args1[1], args1[2]>>, args2))
          [] shape = "bad_args2" ->
                CatPuzzle(AssetId, two_stage(OTHER_MOD_HASH, args1, <<args2[1], Atom(Mallory \o Mallory)>>))
          [] OTHER -> two_stage(OTHER_MOD_HASH, args1, args2)

\* revealed solutions of a stream coin that are no CAT solution wrapping
\* (my_amount, payment_time, to_pay . clawback)
MalformedShapes == {"atom", "no_ring", "inner_atom", "inner_short", "bad_flag",
                    "amount_pair", "amount_negative", "amount_oversized"}

MalformedSolution(shape, self) ==
    LET my_amount == u64_to_clvm(self.coin.amount)
        payment_time == u64_to_clvm(self.end_time)
        to_pay == u64_to_clvm(0)
        inner(a, rest) == Pair(a, Pair(payment_time, rest))
        ring == [prev_subtotal |-> 0, extra_delta |-> 0]
    IN  CASE shape = "atom" -> Atom(<<1>>)
          [] shape = "no_ring" -> Pair(inner(my_amount, Pair(to_pay, Nil)), Nil)
          [] shape = "inner_atom" -> CatSolution_to_clvm(Nil, ring)
          [] shape = "inner_short" -> CatSolution_to_clvm(inner(my_amount, Nil), ring)
          [] shape = "bad_flag" ->
                CatSolution_to_clvm(inner(my_amount, Pair(to_pay, Atom(<<2>>))), ring)
          [] shape = "amount_pair" ->
                CatSolution_to_clvm(inner(Pair(Nil, Nil), Pair(to_pay, Nil)), ring)
          [] shape = "amount_negative" ->
                CatSolution_to_clvm(inner(Atom(<<ByteModulus - 1>>), Pair(to_pay, Nil)), ring)
          [] OTHER ->
                CatSolution_to_clvm(inner(Atom([i \in 1..(WordBytes + 2) |-> 1]), Pair(to_pay, Nil)),
                                    ring)

\* ------------------------------------------------------------------ state
VARIABLES
    overflow_checks,  \* the build profile: TRUE when u64 overflow panics
    stream,           \* Option<StreamedCat>: the stream the caller holds
    ended,            \* TRUE once a clawback was replayed
    launched,         \* Option<u64>: the amount of the launched coin
    paid,             \* the to_pay values of the claims replayed so far
    last,             \* the last call made: what went in and what came out
    ledger,           \* the coin records of one lineage, as the coin lookup serves them
    sync              \* a run of a command: sync_stream's locals and what came of it

vars == <<overflow_checks, stream, ended, launched, paid, last, ledger, sync>>

\* last.op is "none", "launch", "forged", "malformed", "spend" or "quote" (and
\* "solution", "puzzle" or "new" for a codec applied to before, "parse_amount"
\* for an amount typed); before is the stream the call was made on, result what
\* from_parent_spend (or, for a quote, amount_to_be_paid) returned
Call(op, before, payment_time, clawback, built, coin, puzzle, accepted, result) ==
    [op |-> op, before |-> before, payment_time |-> payment_time, clawback |-> clawback,
     built |-> built, coin |-> coin, puzzle |-> puzzle, accepted |-> accepted,
     result |-> result]

NoCoin == Coin_new(GenesisId, <<"none">>, 0)

\* a coin record of the coin lookup, with the puzzle and solution revealed
\* when the coin was spent
CoinRecord(coin, spent, puzzle, solution) ==
    [coin |-> coin, spent |-> spent, puzzle |-> puzzle, solution |-> solution]

Unspent(coin) == CoinRecord(coin, FALSE, Nil, Nil)

\* records: the coin records; stream_id: the coin the stream id names; tip: the
\* unspent stream coin with what is needed to spend it; depth: spends so far
NoLedger == [records |-> <<>>, stream_id |-> None, tip |-> None, depth |-> 0]

\* pc is "idle", "loop", "synced", "returned" or "done"
SyncIdle ==
    [pc |-> "idle", first_run |-> TRUE, latest_coin_id |-> GenesisId, latest_stream |-> None,
     replayed |-> <<>>, cmd |-> "none", returned |-> Ok(None), spend |-> None]

Init ==
    /\ overflow_checks \in BOOLEAN
    /\ stream = None
    /\ ended = FALSE
    /\ launched = None
    /\ paid = <<>>
    /\ last = Call("none", None, 0, FALSE, Ok(Nil), NoCoin, Raw(P2_MOD_HASH), FALSE,
                   Ok(<<None, FALSE, 0>>))
    /\ ledger = NoLedger
    /\ sync = SyncIdle

RECURSIVE Sum(_)
Sum(seq) == IF seq = <<>> THEN 0 ELSE seq[1] + Sum(Tail(seq))

\* sync_stream's first replay: the spend of the parent of the coin named by
\* the stream id, here a spend creating one or two coins
Launch ==
    /\ last.op = "none"
    /\ \E kind \in ParentPuzzles, f \in Params, amount \in Amounts, shape \in MemoShapes,
          second \in Seconds :
        /\ amount = 7 \/ (kind = "cat" /\ shape = "hints4" /\ second = "no")
        /\ kind = "p2" => (shape = "hints4" /\ second \in {"no", "eval_error"})
        /\ LET puzzle == ParentPuzzle(kind)
               coin == Coin_new(GenesisId, tree_hash(puzzle), amount)
               solution == <<"output", ParentOutput(f, amount, shape, second)>>
               result == from_parent_spend(coin, puzzle, solution, overflow_checks)
           IN  /\ last' = Call("launch", None, 0, FALSE, Ok(solution), coin, puzzle, TRUE, result)
               /\ IF IsOk(result) /\ IsSome(result.val[1])
                  THEN /\ stream' = result.val[1]
                       /\ launched' = Some(Unwrap(result.val[1]).coin.amount)
                  ELSE UNCHANGED <<stream, launched>>
    /\ UNCHANGED <<overflow_checks, ended, paid, ledger, sync>>

\* sync_stream's first replay, of a spend whose puzzle only resembles a stream's
ReplayForged ==
    /\ last.op = "none"
    /\ \E shape \in ForgedShapes, f \in Params :
        LET puzzle == ForgedPuzzle(shape, f)
            coin == Coin_new(GenesisId, tree_hash(puzzle), 7)
            solution == <<"output", Ok(<<OtherCondition>>)>>
            result == from_parent_spend(coin, puzzle, solution, overflow_checks)
        IN  last' = Call("forged", None, 0, FALSE, Ok(solution), coin, puzzle, TRUE, result)
    /\ UNCHANGED <<overflow_checks, stream, ended, launched, paid, ledger, sync>>

\* The calls on the stream held are made in the states a replay left. A quote
\* and a replay that failed to decode leave the stream as it is, so what can
\* follow them is what can follow the state they were made in.
AfterReplay == last.op \in {"launch", "spend"}

\* sync_stream's replay of a spend of the stream's coin whose revealed
\* solution does not decode
ReplayMalformed ==
    /\ AfterReplay
    /\ IsSome(stream)
    /\ ~ended
    /\ Len(paid) < MaxClaims
    /\ \E shape \in MalformedShapes :
        LET self == Unwrap(stream)
            puzzle == StreamedCat_construct_puzzle(self)
            solution == MalformedSolution(shape, self)
            result == from_parent_spend(self.coin, puzzle, solution, overflow_checks)
        IN  last' = Call("malformed", stream, 0, FALSE, Ok(solution), self.coin, puzzle,
                         FALSE, result)
    /\ UNCHANGED <<overflow_checks, stream, ended, launched, paid, ledger, sync>>

\* spend(payment_time, clawback) followed by from_parent_spend on that spend,
\* as the caller does: the caller's stream advances when the ledger took the
\* spend and the replay returned an outcome
Spend(payment_time, clawback) ==
    /\ AfterReplay
    /\ IsSome(stream)
    /\ ~ended
    /\ Len(paid) < MaxClaims
    /\ LET self == Unwrap(stream)
           puzzle == StreamedCat_construct_puzzle(self)
           built == construct_solution(self, payment_time, clawback, overflow_checks)
       IN  IF ~IsOk(built)
           THEN /\ last' = Call("spend", stream, payment_time, clawback, built, self.coin,
                                puzzle, FALSE, Panic)
                /\ UNCHANGED <<stream, ended, paid>>
           ELSE LET result == from_parent_spend(self.coin, puzzle, built.val, overflow_checks)
                    sol == CatSolution_from_clvm(built.val).val.inner_puzzle_solution
                    accepted == stream_puzzle_accepts(self, sol)
                IN  /\ last' = Call("spend", stream, payment_time, clawback, built, self.coin,
                                    puzzle, accepted, result)
                    /\ IF accepted /\ IsOk(result)
                       THEN /\ stream' = result.val[1]
                            /\ ended' = result.val[2]
                            /\ paid' = IF result.val[2] THEN paid ELSE Append(paid, sol.to_pay)
                       ELSE UNCHANGED <<stream, ended, paid>>
    /\ UNCHANGED <<overflow_checks, launched, ledger, sync>>

Claim == \E payment_time \in ClaimTimes : Spend(payment_time, FALSE)

Clawback == \E payment_time \in ClaimTimes : Spend(payment_time, TRUE)

\* amount_to_be_paid asked of the stream held (View's "claimable right now",
\* the Claim and Clawback commands' claim_amount)
Quote ==
    /\ AfterReplay
    /\ IsSome(stream)
    /\ \E payment_time \in ClaimTimes :
        last' = Call("quote", stream, payment_time, FALSE, Ok(Nil), Unwrap(stream).coin,
                     StreamedCat_construct_puzzle(Unwrap(stream)), FALSE,
                     amount_to_be_paid(Unwrap(stream), payment_time, overflow_checks))
    /\ UNCHANGED <<overflow_checks, stream, ended, launched, paid, ledger, sync>>

Next == Launch \/ ReplayForged \/ ReplayMalformed \/ Claim \/ Clawback \/ Quote

Spec == Init /\ [][Next]_vars

\* ------------------------------------------- sync_stream and the commands
\* The coin lookup serves the records of one lineage: the launching CAT spend,
\* the stream coins it and the claims created, and after a clawback the coin
\* returned to the clawback party.

\* the coin the deployed puzzle creates next to the recipient's: the stream
\* curried again with payment_time, or on a clawback a coin of CLAWBACK_PH
stream_puzzle_creates(self, sol) ==
    LET self_hash ==
            StreamPuzzle1stCurryArgs_curry_tree_hash(self.recipient, self.clawback_ph, self.end_time)
        inner == IF sol.clawback THEN self.clawback_ph
                 ELSE <<"curry", self_hash, self_hash, u64_to_bytes(sol.payment_time)>>
    IN  Coin_new(coin_id(self.coin), CatArgs_curry_tree_hash(self.asset_id, inner),
                 sol.my_amount - sol.to_pay)

\* cli.get_coin_record_by_name(name): the record, if the lookup has one
get_coin_record_by_name(records, name) ==
    LET found == {i \in 1..Len(records) : coin_id(records[i].coin) = name}
    IN  IF found = {} THEN None ELSE Some(records[CHOOSE i \in found : TRUE])

\* a coin id the lookup has no record of
UnknownCoinId == <<"coin", "unknown">>

\* a CAT spend launches a stream: the stream id names the first coin it created
LedgerLaunch ==
    /\ sync.pc = "idle"
    /\ ledger.records = <<>>
    /\ \E f \in Params, second \in {"no", "other", "stream"} :
        LET puzzle == ParentPuzzle("cat")
            parent == Coin_new(GenesisId, tree_hash(puzzle), 7)
            output == ParentOutput(f, 7, "hints4", second)
            created == SelectSeq(output.val, LAMBDA c : c[1] = "CreateCoin")
            first == Coin_new(coin_id(parent), created[1][2], created[1][3])
        IN  ledger' =
                [records |->
                    <<CoinRecord(parent, TRUE, puzzle, <<"output", output>>)>>
                    \o [i \in 1..Len(created) |->
                           Unspent(Coin_new(coin_id(parent), created[i][2], created[i][3]))],
                 stream_id |-> Some(coin_id(first)),
                 tip |-> Some(StreamedCat_new(first, AssetId,
                            [parent_parent_coin_info |-> parent.parent_coin_info,
                             parent_inner_puzzle_hash |-> tree_hash(P2Puzzle),
                             parent_amount |-> parent.amount],
                            f.recipient, f.clawback_ph, f.end_time, f.last_payment_time)),
                 depth |-> 0]
    /\ UNCHANGED <<overflow_checks, stream, ended, launched, paid, last, sync>>

\* the unspent stream coin is spent by a claim or a clawback that
\* StreamedCat::spend built and the deployed puzzle accepts
LedgerSpend ==
    /\ sync.pc = "idle"
    /\ IsSome(ledger.tip)
    /\ ledger.depth < MaxClaims
    /\ \E payment_time \in ClaimTimes, clawback \in BOOLEAN :
        LET self == Unwrap(ledger.tip)
            puzzle == StreamedCat_construct_puzzle(self)
            built == construct_solution(self, payment_time, clawback, overflow_checks)
        IN  /\ IsOk(built)
            /\ LET sol == CatSolution_from_clvm(built.val).val.inner_puzzle_solution
                   coin == stream_puzzle_creates(self, sol)
               IN  /\ stream_puzzle_accepts(self, sol)
                   /\ ledger' =
                        [ledger EXCEPT
                            !.records =
                                [i \in 1..Len(@) |->
                                    IF @[i].coin = self.coin
                                    THEN CoinRecord(self.coin, TRUE, puzzle, built.val)
                                    ELSE @[i]] \o <<Unspent(coin)>>,
                            !.tip =
                                IF clawback THEN None
                                ELSE Some(StreamedCat_new(coin, self.asset_id,
                                         [parent_parent_coin_info |-> self.coin.parent_coin_info,
                                          parent_inner_puzzle_hash |-> self.inner_puzzle_hash,
                                          parent_amount |-> self.coin.amount],
                                         self.recipient, self.clawback_ph, self.end_time,
                                         sol.payment_time)),
                            !.depth = @ + 1]
    /\ UNCHANGED <<overflow_checks, stream, ended, launched, paid, last, sync>>

\* after a clawback, the clawback party spends the coin that was returned into
\* a plain CAT coin, with no memos or a memo that is one byte string; the id
\* asked about afterwards is the stream's or that coin's
LedgerSpendReturned ==
    /\ sync.pc = "idle"
    /\ ledger.depth > 0
    /\ ~IsSome(ledger.tip)
    /\ ~ledger.records[Len(ledger.records)].spent
    /\ LET returned == ledger.records[Len(ledger.records)].coin
           puzzle == CatPuzzle(AssetId, P2Puzzle)
           created == Coin_new(coin_id(returned), tree_hash(puzzle), returned.amount)
           output(memos) == Ok(<<CreateCoin(tree_hash(P2Puzzle), returned.amount, memos)>>)
       IN  \E stream_coin_id \in {Unwrap(ledger.stream_id), coin_id(created)},
              memos \in {None, Some(Atom(Carol))} :
            ledger' = [ledger EXCEPT
                          !.records = <<Unspent(created)>> \o
                              [@ EXCEPT ![Len(@)] =
                                  CoinRecord(returned, TRUE, puzzle,
                                             <<"output", output(memos)>>)],
                          !.stream_id = Some(stream_coin_id)]
    /\ UNCHANGED <<overflow_checks, stream, ended, launched, paid, last, sync>>

\* sync_stream up to its loop: latest_coin_id = stream_coin_id
SyncStart ==
    /\ sync.pc = "idle"
    /\ IsSome(ledger.stream_id)
    /\ \E stream_coin_id \in {Unwrap(ledger.stream_id), UnknownCoinId} :
        sync' = [sync EXCEPT !.pc = "loop", !.latest_coin_id = stream_coin_id]
    /\ UNCHANGED <<overflow_checks, stream, ended, launched, paid, last, ledger>>

\* a slip: after a replay that gave no stream, the stream of the replay before
sync_return_on_none_keeps_latest(latest_stream, clawbacked) == Ok(latest_stream)

\* let Some(new_stream) = new_stream else { ...; return Ok(None); };
sync_return_on_none(latest_stream, clawbacked) == Ok(None)

\* a slip: the replay started at the coin the stream id names
first_run_parent_as_self(coin_record) == coin_id(coin_record.coin)

\* if first_run { latest_coin_id = coin_record.coin.parent_coin_info; ... }
first_run_parent(coin_record) == coin_record.coin.parent_coin_info

\* one turn of sync_stream's loop
SyncStep ==
    /\ sync.pc = "loop"
    /\ LET coin_record == get_coin_record_by_name(ledger.records, sync.latest_coin_id)
       IN  IF ~IsSome(coin_record)
           THEN sync' = [sync EXCEPT !.pc = "returned", !.returned = Ok(None)]
           ELSE IF sync.first_run
           THEN sync' = [sync EXCEPT !.latest_coin_id = first_run_parent(Unwrap(coin_record)),
                                     !.first_run = FALSE]
           ELSE IF ~Unwrap(coin_record).spent
           THEN sync' = [sync EXCEPT !.pc = "synced"]
           ELSE LET record == Unwrap(coin_record)
                    result == from_parent_spend(record.coin, record.puzzle, record.solution,
                                                overflow_checks)
                    replayed == Append(sync.replayed, [coin |-> record.coin, result |-> result])
                IN  IF ~IsOk(result)
                    THEN sync' = [sync EXCEPT !.pc = "returned", !.returned = result,
                                              !.replayed = replayed]
                    ELSE IF ~IsSome(result.val[1])
                    THEN sync' = [sync EXCEPT !.pc = "returned",
                                              !.returned = sync_return_on_none(sync.latest_stream,
                                                                               result.val[2]),
                                              !.replayed = replayed]
                    ELSE sync' = [sync EXCEPT !.latest_coin_id = coin_id(Unwrap(result.val[1]).coin),
                                              !.latest_stream = result.val[1],
                                              !.replayed = replayed]
    /\ UNCHANGED <<overflow_checks, stream, ended, launched, paid, last, ledger>>

\* sync_stream after its loop; View asks for the amount claimable right now
SyncFinish ==
    /\ sync.pc = "synced"
    /\ \E cmd \in {"view", "claim", "clawback"}, time_now \in ClaimTimes :
        LET claimable ==
                IF cmd = "view" /\ IsSome(sync.latest_stream)
                THEN amount_to_be_paid(Unwrap(sync.latest_stream), time_now, overflow_checks)
                ELSE Ok(0)
        IN  sync' = [sync EXCEPT !.pc = IF cmd = "view" THEN "done" ELSE "returned",
                                 !.cmd = cmd,
                                 !.returned = IF IsOk(claimable) THEN Ok(sync.latest_stream)
                                              ELSE Panic]
    /\ UNCHANGED <<overflow_checks, stream, ended, launched, paid, last, ledger>>

\* the lead, in units of the model's clock, that Clawback adds to the latest
\* timestamp (600 seconds)
ClawbackLead == 1

\* a slip: the time taken from the chain without the cap at end_time
claim_time_uncapped(cmd, latest_timestamp, end_time, checks) ==
    IF cmd = "claim" THEN U64Sub(latest_timestamp, 1, checks)
    ELSE U64Add(latest_timestamp, ClawbackLead, checks)

\* Claim: latest_timestamp - 1, Clawback: latest_timestamp + 600; each capped
\* at end_time
claim_time(cmd, latest_timestamp, end_time, checks) ==
    LET t == IF cmd = "claim" THEN U64Sub(latest_timestamp, 1, checks)
             ELSE U64Add(latest_timestamp, ClawbackLead, checks)
    IN  IF ~IsOk(t) THEN Panic
        ELSE IF t.val <= end_time THEN t ELSE Ok(end_time)

\* Commands::Claim and Commands::Clawback after sync_stream(...).await?.unwrap():
\* the claim time, then the spend of the synced coin
CommandFinish ==
    /\ sync.pc = "returned"
    /\ \E cmd \in {"claim", "clawback"}, latest_timestamp \in ClaimTimes :
        /\ sync.cmd \in {"none", cmd}
        /\ IF ~IsOk(sync.returned)
           THEN sync' = [sync EXCEPT !.pc = "done", !.cmd = cmd]
           ELSE IF ~IsSome(sync.returned.val)
           THEN sync' = [sync EXCEPT !.pc = "done", !.cmd = cmd, !.returned = Panic]
           ELSE LET self == Unwrap(sync.returned.val)
                    t == claim_time(cmd, latest_timestamp, self.end_time, overflow_checks)
                IN  IF ~IsOk(t)
                    THEN sync' = [sync EXCEPT !.pc = "done", !.cmd = cmd, !.returned = Panic]
                    ELSE sync' = [sync EXCEPT
                             !.pc = "done", !.cmd = cmd,
                             !.spend = Some([coin |-> self.coin,
                                             latest_timestamp |-> latest_timestamp,
                                             claim_time |-> t.val,
                                             solution |-> construct_solution(self, t.val,
                                                              cmd = "clawback", overflow_checks)])]
    /\ UNCHANGED <<overflow_checks, stream, ended, launched, paid, last, ledger>>

SyncNext ==
    \/ LedgerLaunch
    \/ LedgerSpend
    \/ LedgerSpendReturned
    \/ SyncStart
    \/ SyncStep
    \/ SyncFinish
    \/ CommandFinish

SyncSpec == Init /\ [][SyncNext]_vars

\* ------------------------------------------------------------- the codecs
\* u64 values at the edges of the encoding: around the sign bit of one byte,
\* of the whole word, and the ends of the range
EdgeValues ==
    {0, 1, ByteModulus \div 2 - 1, ByteModulus \div 2, ByteModulus - 1, ByteModulus,
     U64Modulus \div 2 - 1, U64Modulus \div 2, U64Max}

\* StreamLayer::construct_solution, then StreamLayer::parse_solution on its node
EncodeSolution ==
    /\ last.op = "none"
    /\ \E my_amount \in 0..U64Max, payment_time \in EdgeValues, to_pay \in EdgeValues,
          clawback \in BOOLEAN :
        LET solution == [my_amount |-> my_amount, payment_time |-> payment_time,
                         to_pay |-> to_pay, clawback |-> clawback]
            built == StreamLayer_construct_solution(solution)
        IN  last' = Call("solution", Some(solution), payment_time, clawback, built, NoCoin,
                         Raw(STREAM_PUZZLE_HASH), FALSE, StreamLayer_parse_solution(built.val))
    /\ UNCHANGED <<overflow_checks, stream, ended, launched, paid, ledger, sync>>

\* StreamLayer::construct_puzzle, then StreamLayer::parse_puzzle on its puzzle
EncodePuzzle ==
    /\ last.op = "none"
    /\ \E recipient \in {Alice, Mallory}, clawback_ph \in {None, Carol},
          end_time \in EdgeValues, last_payment_time \in 0..U64Max :
        LET layer == StreamLayer_new(recipient, clawback_ph, end_time, last_payment_time)
            puzzle == StreamLayer_construct_puzzle(layer)
        IN  last' = Call("puzzle", Some(layer), 0, FALSE, Ok(Nil), NoCoin, puzzle, FALSE,
                         StreamLayer_parse_puzzle(puzzle))
    /\ UNCHANGED <<overflow_checks, stream, ended, launched, paid, ledger, sync>>

\* StreamedCat::new on some coin of some asset: its inner_puzzle_hash
NewStreamedCat ==
    /\ last.op = "none"
    /\ \E recipient \in {Alice, Mallory}, clawback_ph \in {None, Carol},
          end_time \in EdgeValues, last_payment_time \in {0, 1, U64Max},
          amount \in Amounts, asset_id \in {AssetId, <<"asset", "other">>} :
        LET coin == Coin_new(GenesisId, <<"none">>, amount)
            proof == [parent_parent_coin_info |-> GenesisId,
                      parent_inner_puzzle_hash |-> tree_hash(P2Puzzle),
                      parent_amount |-> amount]
            self == StreamedCat_new(coin, asset_id, proof, recipient, clawback_ph, end_time,
                                    last_payment_time)
        IN  last' = Call("new", Some(self), 0, FALSE, Ok(Nil), coin,
                         StreamedCat_construct_puzzle(self), FALSE, Ok(self.inner_puzzle_hash))
    /\ UNCHANGED <<overflow_checks, stream, ended, launched, paid, ledger, sync>>

\* ------------------------------------------------------------ parse_amount
\* Amounts are typed as text, a sequence of characters. The decimals of a unit
\* are scaled with the word: 1 for a CAT (3 in the source), 2 for XCH (12).
CatDecimals == 1
XchDecimals == 2
MaxAmountLen == 4

Digits == <<"0", "1", "2", "3", "4", "5", "6", "7", "8", "9">>
IsDigit(c) == \E d \in 1..Len(Digits) : Digits[d] = c
DigitValue(c) == (CHOOSE d \in 1..Len(Digits) : Digits[d] = c) - 1

RECURSIVE Pow10(_)
Pow10(n) == IF n = 0 THEN 1 ELSE 10 * Pow10(n - 1)

\* the decimal value of a sequence of digits
RECURSIVE DecimalValue(_)
DecimalValue(digits) ==
    IF digits = <<>> THEN 0
    ELSE 10 * DecimalValue(SubSeq(digits, 1, Len(digits) - 1)) + DigitValue(digits[Len(digits)])

\* str::parse::<u64>: an optional '+', then one digit or more, of a value that
\* fits the word
parse_u64(text) ==
    LET digits == IF text # <<>> /\ text[1] = "+" THEN Tail(text) ELSE text
    IN  IF digits = <<>> THEN Err("InvalidAmount")
        ELSE IF \E i \in 1..Len(digits) : ~IsDigit(digits[i]) THEN Err("InvalidAmount")
        ELSE IF DecimalValue(digits) > U64Max THEN Err("InvalidAmount")
        ELSE Ok(DecimalValue(digits))

\* amount.contains(".")
contains_dot(amount) == \E i \in 1..Len(amount) : amount[i] = "."

\* amount.split_once('.'): the text before and after the first '.'
split_once(amount) ==
    LET i == CHOOSE k \in 1..Len(amount) :
                 amount[k] = "." /\ \A j \in 1..(k - 1) : amount[j] # "."
    IN  <<SubSeq(amount, 1, i - 1), SubSeq(amount, i + 1, Len(amount))>>

\* format!("{:0<width}", text): '0' appended up to width characters; a longer
\* text is left as it is
pad_right(text, width) ==
    IF Len(text) >= width THEN text
    ELSE text \o [i \in 1..(width - Len(text)) |-> "0"]

\* parse_amount(amount, is_cat)
parse_amount(amount, is_cat, checks) ==
    IF ~contains_dot(amount) THEN Err("InvalidAmount")
    ELSE LET whole == parse_u64(split_once(amount)[1])
             decimals == IF is_cat THEN CatDecimals ELSE XchDecimals
             fractional == parse_u64(pad_right(split_once(amount)[2], decimals))
         IN  IF ~IsOk(whole) THEN whole
             ELSE IF ~IsOk(fractional) THEN fractional
             ELSE LET units == U64Mul(whole.val, Pow10(decimals), checks)
                  IN  IF ~IsOk(units) THEN units
                      ELSE U64Add(units.val, fractional.val, checks)

\* the characters an amount is typed with
AmountChars == {"0", "1", "5", ".", "+", "x"}

AmountTexts == UNION {[1..n -> AmountChars] : n \in 0..MaxAmountLen}

\* Commands::Launch and the fee of every command: parse_amount on what was typed
ParseAmount ==
    /\ last.op = "none"
    /\ \E amount \in AmountTexts, is_cat \in BOOLEAN :
        last' = Call("parse_amount", Some([amount |-> amount, is_cat |-> is_cat]), 0, FALSE,
                     Ok(Nil), NoCoin, Nil, FALSE, parse_amount(amount, is_cat, overflow_checks))
    /\ UNCHANGED <<overflow_checks, stream, ended, launched, paid, ledger, sync>>

CodecNext == EncodeSolution \/ EncodePuzzle \/ NewStreamedCat \/ ParseAmount

CodecSpec == Init /\ [][CodecNext]_vars

\* ================================================================= claims
\* the stream a call was made on, and the stream a replay returned
Before == Unwrap(last.before)
Returned == Unwrap(last.result.val[1])
ReturnsStream == last.op \in {"launch", "forged", "spend"} /\ IsOk(last.result) /\ IsSome(last.result.val[1])
ValidClaimTime(self, t) == self.last_payment_time < t /\ t <= self.end_time

\* the vesting formula over the unbounded integers
ExactAmount(self, t) ==
    (self.coin.amount * (t - self.last_payment_time)) \div (self.end_time - self.last_payment_time)

\* C1: for every stream and every payment_time with last_payment_time <
\* payment_time <= end_time, amount_to_be_paid(payment_time) is
\* floor(coin.amount * (payment_time - last_payment_time) / (end_time - last_payment_time)).
C1_AmountIsFloor ==
    (last.op = "quote" /\ ValidClaimTime(Before, last.payment_time))
        => (IsOk(last.result) /\ last.result.val = ExactAmount(Before, last.payment_time))

\* C2: for every stream with last_payment_time < end_time,
\* amount_to_be_paid(end_time) is coin.amount exactly.
C2_FullPayoutAtEnd ==
    (last.op = "quote" /\ Before.last_payment_time < Before.end_time
                       /\ last.payment_time = Before.end_time)
        => (IsOk(last.result) /\ last.result.val = Before.coin.amount)

\* C3: amount_to_be_paid is non-decreasing in payment_time: for all t1 <= t2
\* in (last_payment_time, end_time], amount_to_be_paid(t1) <= amount_to_be_paid(t2).
C3_Monotone ==
    (last.op = "quote" /\ ValidClaimTime(Before, last.payment_time))
        => \A t1 \in ClaimTimes :
              (ValidClaimTime(Before, t1) /\ t1 <= last.payment_time)
                  => LET earlier == amount_to_be_paid(Before, t1, overflow_checks)
                     IN  /\ IsOk(earlier)
                         /\ IsOk(last.result)
                         /\ earlier.val <= last.result.val

\* C4: for any stream S and valid claim time T, from_parent_spend on S.coin,
\* S's puzzle and S's solution for (T, clawback = false) returns
\* (Some(S'), false, 0) with S'.coin.amount = S.coin.amount - S.amount_to_be_paid(T)
\* and S'.last_payment_time = T.
C4_ReplayRoundTrip ==
    (last.op = "spend" /\ ~last.clawback /\ ValidClaimTime(Before, last.payment_time))
        => /\ IsOk(last.result)
           /\ IsSome(last.result.val[1])
           /\ last.result.val[2] = FALSE
           /\ last.result.val[3] = 0
           /\ IsOk(amount_to_be_paid(Before, last.payment_time, overflow_checks))
           /\ Returned.coin.amount =
                 Before.coin.amount - amount_to_be_paid(Before, last.payment_time, overflow_checks).val
           /\ Returned.last_payment_time = last.payment_time

\* C5: after a launch and any number of claims, the stream's coin.amount is
\* the launched amount minus the sum of the to_pay values of the claims replayed.
C5_Conservation ==
    IsSome(stream) => Unwrap(stream).coin.amount = Unwrap(launched) - Sum(paid)

C5_Witness ==
    /\ IsSome(stream)
    /\ Len(paid) = 2
    /\ paid[1] > 0
    /\ paid[2] > 0
    /\ Unwrap(stream).coin.amount > 0

\* C6: a replayed spend of the stream puzzle whose solution has clawback = true
\* returns (None, true, to_pay), to_pay being the solution's; never a successor.
C6_ClawbackTerminal ==
    (last.op = "spend" /\ last.clawback /\ IsOk(last.built))
        => /\ IsOk(last.result)
           /\ last.result.val =
                <<None, TRUE,
                  CatSolution_from_clvm(last.built.val).val.inner_puzzle_solution.to_pay>>

C6_Witness ==
    /\ last.op = "spend"
    /\ last.clawback
    /\ IsOk(last.built)
    /\ last.accepted
    /\ last.result.val[3] > 0
    /\ ended

\* the commitment of a stream's own fields, wrapped in its CAT
Commitment(asset_id, recipient, clawback_ph, end_time, last_payment_time) ==
    LET h1 == <<"curry", STREAM_PUZZLE_HASH, recipient, clawback_ph, u64_to_bytes(end_time)>>
    IN  <<"cat", asset_id, <<"curry", h1, h1, u64_to_bytes(last_payment_time)>>>>

LaunchOutput == last.built.val[2].val

\* C7: launch detection accepts a created coin only if its puzzle hash is the
\* CAT-wrapped commitment recomputed from the memo fields: the stream returned
\* is one of the created coins, and that coin's puzzle hash is the commitment
\* of the fields returned.
C7_NoForgedLaunch ==
    (last.op = "launch" /\ ReturnsStream)
        => \E i \in 1..Len(LaunchOutput) :
              /\ LaunchOutput[i][1] = "CreateCoin"
              /\ LaunchOutput[i][3] = Returned.coin.amount
              /\ LaunchOutput[i][2] = Returned.coin.puzzle_hash
              /\ LaunchOutput[i][2] =
                    Commitment(Returned.asset_id, Returned.recipient, Returned.clawback_ph,
                               Returned.end_time, Returned.last_payment_time)

\* a CAT spend creating only coins whose memos decode but commit to other
\* fields than the coin does, and no stream came out
C7_Witness ==
    /\ last.op = "launch"
    /\ IsOk(last.result)
    /\ ~IsSome(last.result.val[1])
    /\ IsSome(CatLayer_parse_puzzle(last.puzzle).val)
    /\ IsOk(last.built.val[2])
    /\ \E i \in 1..Len(LaunchOutput) :
          /\ LaunchOutput[i][1] = "CreateCoin"
          /\ IsSome(LaunchOutput[i][4])
          /\ IsOk(VecBytes_from_clvm(Unwrap(LaunchOutput[i][4])))
          /\ LET f == decode_memos(VecBytes_from_clvm(Unwrap(LaunchOutput[i][4])).val)
             IN  /\ IsSome(f)
                 /\ Unwrap(f).recipient = Mallory
                 /\ LaunchOutput[i][2] #
                       Commitment(AssetId, Unwrap(f).recipient, Unwrap(f).clawback_ph,
                                  Unwrap(f).end_time, Unwrap(f).last_payment_time)

\* C8: every StreamedCat built at launch detection or returned as the
\* successor of a claim has last_payment_time < end_time.
C8_LastPaymentBeforeEnd ==
    ReturnsStream => Returned.last_payment_time < Returned.end_time

\* a CAT whose inner puzzle is a program curried twice, with argument lists
\* that decode as the stream's, over a module that is not the stream's
TwoStageOverOtherModule(puzzle) ==
    /\ IsSome(CatLayer_parse_puzzle(puzzle).val)
    /\ LET inner == Unwrap(CatLayer_parse_puzzle(puzzle).val).inner_puzzle
       IN  /\ IsCurried(inner)
           /\ IsCurried(inner[2])
           /\ ~IsCurried(inner[2][2])
           /\ IsOk(StreamPuzzle1stCurryArgs_from_clvm(inner[2][3]))
           /\ IsOk(StreamPuzzle2ndCurryArgs_from_clvm(inner[3]))
           /\ inner[2][2][2] # STREAM_PUZZLE_HASH

\* C9: a revealed CAT puzzle whose inner puzzle has the stream's two-stage
\* curried shape over another module hash makes from_parent_spend fail with
\* InvalidModHash: neither no-match nor a stream.
C9_InvalidModHash ==
    (last.op \in {"launch", "forged", "spend"} /\ TwoStageOverOtherModule(last.puzzle))
        => last.result = Err("InvalidModHash")

C9_Witness ==
    /\ last.op = "forged"
    /\ TwoStageOverOtherModule(last.puzzle)
    /\ last.result.tag = "Err"

\* C10: amount_to_be_paid fails for payment_time <= last_payment_time
\* instead of returning an amount.
C10_RejectsNonIncreasingTime ==
    (last.op = "quote" /\ last.payment_time <= Before.last_payment_time)
        => ~IsOk(last.result)

\* C11: for every payment_time > end_time, amount_to_be_paid(payment_time) is
\* amount_to_be_paid(end_time), which is coin.amount: the amount saturates at
\* the remaining balance.
C11_SaturatesAfterEnd ==
    (last.op = "quote" /\ Before.last_payment_time < Before.end_time
                       /\ last.payment_time > Before.end_time)
        => /\ IsOk(last.result)
           /\ last.result = amount_to_be_paid(Before, Before.end_time, overflow_checks)
           /\ last.result.val = Before.coin.amount

\* a created coin that validates as a stream launch of the asset: its memos
\* decode to fields whose CAT-wrapped commitment is the coin's puzzle hash
ValidatesAsLaunch(cond, asset_id) ==
    /\ cond[1] = "CreateCoin"
    /\ IsSome(cond[4])
    /\ IsOk(VecBytes_from_clvm(Unwrap(cond[4])))
    /\ LET f == decode_memos(VecBytes_from_clvm(Unwrap(cond[4])).val)
       IN  /\ IsSome(f)
           /\ cond[2] = Commitment(asset_id, Unwrap(f).recipient, Unwrap(f).clawback_ph,
                                   Unwrap(f).end_time, Unwrap(f).last_payment_time)

\* the replayed spend ran, its puzzle is no stream puzzle (nor one in the
\* stream's shape over another module), and no coin it created validates
UnrelatedSpend ==
    /\ last.op \in {"launch", "forged"}
    /\ IsOk(last.built.val[2])
    /\ ~TwoStageOverOtherModule(last.puzzle)
    /\ \A i \in 1..Len(LaunchOutput) : ~ValidatesAsLaunch(LaunchOutput[i], AssetId)

\* C12: a spend whose puzzle is not the stream's and none of whose created
\* coins validates as a stream launch (a parent that is no CAT included) makes
\* from_parent_spend return the no-match outcome (None, false, 0), never an error.
C12_UnrelatedIsNoMatch ==
    UnrelatedSpend => last.result = Ok(<<None, FALSE, 0>>)

\* C13: when the spent coin's puzzle is the stream's but its revealed solution
\* does not decode as a CAT solution wrapping (my_amount, payment_time, to_pay,
\* clawback), from_parent_spend returns a decode error: no stream, no clawback
\* signal, no no-match.
C13_MalformedSolutionIsError ==
    (last.op = "malformed"
        /\ IsSome(CatStreamLayer_parse_puzzle(last.puzzle).val))
        => last.result = Err("FromClvm")

C13_Witness ==
    /\ last.op = "malformed"
    /\ IsSome(CatStreamLayer_parse_puzzle(last.puzzle).val)
    /\ last.built.val = MalformedSolution("bad_flag", Before)
    /\ Len(paid) = 1
    /\ last.result.tag = "Err"

\* the turns of the loop that replayed a clawback
ClawbackReplays ==
    {i \in 1..Len(sync.replayed) :
        IsOk(sync.replayed[i].result) /\ sync.replayed[i].result.val[2]}

\* C14: once sync_stream replays a spend whose outcome is clawback it stops
\* and returns Ok(None): that spend is the last one replayed, no stream is
\* returned, and Claim and Clawback build no spend.
C14_ClawbackEndsSync ==
    \A i \in ClawbackReplays :
        /\ i = Len(sync.replayed)
        /\ ~IsSome(sync.replayed[i].result.val[1])
        /\ sync.pc \in {"returned", "done"}
        /\ sync.pc = "returned" => sync.returned = Ok(None)
        /\ sync.pc = "done" => sync.returned = Panic
        /\ sync.spend = None

\* a launch, a claim and a clawback that paid were replayed, the coin returned
\* by the clawback was spent since, and the Claim command came to its end
C14_Witness ==
    /\ sync.pc = "done"
    /\ sync.cmd = "claim"
    /\ Len(sync.replayed) = 3
    /\ ClawbackReplays = {3}
    /\ sync.replayed[3].result.val[3] > 0
    /\ ledger.records[Len(ledger.records)].spent

\* a replayed claim: spend() built it with clawback = false and what it pays
\* does not exceed the spent coin's amount
ReplayedClaim ==
    /\ last.op = "spend"
    /\ ~last.clawback
    /\ IsOk(last.built)
    /\ amount_to_be_paid(Before, last.payment_time, overflow_checks).val <= last.coin.amount

\* C15: for a claim spend the successor returned by from_parent_spend has
\* coin.parent_coin_info = the spent coin's id, coin.amount = spent.amount -
\* to_pay, and coin.puzzle_hash = the commitment of the same asset id,
\* recipient, clawback_ph and end_time with last_payment_time the solution's
\* payment_time.
C15_SuccessorCoin ==
    ReplayedClaim
        => /\ ReturnsStream
           /\ Returned.coin.parent_coin_info =
                 <<"coin", last.coin.parent_coin_info, last.coin.puzzle_hash, last.coin.amount>>
           /\ Returned.coin.amount =
                 last.coin.amount - amount_to_be_paid(Before, last.payment_time, overflow_checks).val
           /\ Returned.coin.puzzle_hash =
                 Commitment(Before.asset_id, Before.recipient, Before.clawback_ph,
                            Before.end_time, last.payment_time)

\* the second claim of a lineage, accepted by the ledger, paying part of what
\* is left
C15_Witness ==
    /\ ReplayedClaim
    /\ last.accepted
    /\ Len(paid) = 2
    /\ paid[2] > 0
    /\ Returned.coin.amount > 0
    /\ Before.clawback_ph = Carol

\* C16: a claim leaves the stream's parameters unchanged: each successor has
\* the recipient, clawback_ph, end_time and asset_id of the stream before it,
\* and so of the launched stream.
C16_ParamsUnchanged ==
    [][(IsSome(stream) /\ IsSome(stream'))
          => /\ Unwrap(stream').recipient = Unwrap(stream).recipient
             /\ Unwrap(stream').clawback_ph = Unwrap(stream).clawback_ph
             /\ Unwrap(stream').end_time = Unwrap(stream).end_time
             /\ Unwrap(stream').asset_id = Unwrap(stream).asset_id]_vars

\* two claims were replayed on a stream with a clawback hash: coin, proof,
\* inner puzzle hash and last_payment_time changed
C16_Witness ==
    /\ last.op = "spend"
    /\ ReturnsStream
    /\ Len(paid) = 2
    /\ Returned = Unwrap(stream)
    /\ Returned.clawback_ph = Carol
    /\ Returned.coin # Before.coin
    /\ Returned.proof # Before.proof
    /\ Returned.inner_puzzle_hash # Before.inner_puzzle_hash
    /\ Returned.last_payment_time # Before.last_payment_time

\* the inner solution of a built CAT solution, and its four fields as atoms
InnerNode(built) == built.val[2]
InnerAtoms(built) ==
    <<InnerNode(built)[2], InnerNode(built)[3][2], InnerNode(built)[3][3][2],
      InnerNode(built)[3][3][3]>>

\* C17: construct_solution(payment_time, clawback) builds the inner solution
\* (my_amount = coin.amount, payment_time, to_pay = amount_to_be_paid(payment_time),
\* clawback); the claim and the clawback payload of one stream and payment_time
\* differ in the clawback flag only.
C17_SolutionFields ==
    last.op = "spend"
        => LET to_pay == amount_to_be_paid(Before, last.payment_time, overflow_checks)
               other == construct_solution(Before, last.payment_time, ~last.clawback,
                                           overflow_checks)
           IN  /\ IsOk(last.built) <=> IsOk(to_pay)
               /\ IsOk(last.built)
                    => /\ InnerAtoms(last.built) =
                            <<Atom(u64_to_bytes(Before.coin.amount)),
                              Atom(u64_to_bytes(last.payment_time)),
                              Atom(u64_to_bytes(to_pay.val)),
                              IF last.clawback THEN Atom(<<1>>) ELSE Nil>>
                       /\ IsOk(other)
                       /\ \A i \in 1..3 : InnerAtoms(other)[i] = InnerAtoms(last.built)[i]
                       /\ InnerAtoms(other)[4] # InnerAtoms(last.built)[4]
                       /\ other.val[3] = last.built.val[3]

\* a clawback payload paying part of the balance
C17_Witness ==
    /\ last.op = "spend"
    /\ last.clawback
    /\ IsOk(last.built)
    /\ InnerAtoms(last.built)[3] # Nil
    /\ InnerAtoms(last.built)[3] # InnerAtoms(last.built)[1]
    /\ InnerAtoms(last.built)[4] = Atom(<<1>>)

\* C18: the solution codec round-trips: for every StreamPuzzleSolution s,
\* parse_solution(construct_solution(s)) = s, with clawback false and true.
C18_SolutionRoundTrip ==
    last.op = "solution" => /\ IsOk(last.built)
                            /\ last.result = Ok(Before)

\* a clawback solution whose integers need a sign byte, a full word, or no
\* byte at all
C18_Witness ==
    /\ last.op = "solution"
    /\ Before.clawback
    /\ Before.my_amount = U64Max
    /\ Before.payment_time = ByteModulus \div 2
    /\ Before.to_pay = 0
    /\ Len(last.built.val[2][2]) = WordBytes + 1
    /\ IsOk(last.result)

\* C19: the puzzle codec round-trips: for every StreamLayer L,
\* parse_puzzle(construct_puzzle(L)) = Some(L), and the tree hash of
\* construct_puzzle(L) is L.puzzle_hash().
C19_PuzzleRoundTrip ==
    last.op = "puzzle"
        => /\ last.result = Ok(Some(Before))
           /\ tree_hash(last.puzzle) = StreamLayer_puzzle_hash(Before)

\* a layer without clawback hash whose times need a sign byte
C19_Witness ==
    /\ last.op = "puzzle"
    /\ Before.clawback_ph = None
    /\ Before.end_time = U64Max
    /\ Before.last_payment_time = U64Modulus \div 2
    /\ IsOk(last.result)
    /\ IsSome(last.result.val)

\* C20: the stream commitment is h2 = curry(h1, (h1, last_payment_time)) with
\* h1 = curry(STREAM_PUZZLE_HASH, (recipient, clawback_ph, end_time)): a function
\* of those four fields only, whatever the coin, the amount and the asset id.
C20_TwoStageCommitment ==
    last.op = "new"
        => LET h1 == <<"curry", STREAM_PUZZLE_HASH, Before.recipient, Before.clawback_ph,
                       u64_to_bytes(Before.end_time)>>
               h2 == <<"curry", h1, h1, u64_to_bytes(Before.last_payment_time)>>
           IN  /\ Before.inner_puzzle_hash = h2
               /\ StreamPuzzle1stCurryArgs_curry_tree_hash(
                      Before.recipient, Before.clawback_ph, Before.end_time) = h1
               /\ StreamLayer_puzzle_hash(
                      StreamLayer_new(Before.recipient, Before.clawback_ph, Before.end_time,
                                      Before.last_payment_time)) = h2
               /\ \A amount \in Amounts :
                      StreamedCat_new(Coin_new(GenesisId, <<"none">>, amount), AssetId,
                                      Before.proof, Before.recipient, Before.clawback_ph,
                                      Before.end_time, Before.last_payment_time).inner_puzzle_hash
                          = Before.inner_puzzle_hash

\* a stream of another asset, on a coin of the largest amount
C20_Witness ==
    /\ last.op = "new"
    /\ Before.asset_id # AssetId
    /\ Before.coin.amount = U64Max
    /\ Before.clawback_ph = Carol
    /\ Before.last_payment_time = 1

\* the two stages of a stream's commitment: h1 (the self_hash curried into the
\* second stage) and h2 (the inner puzzle hash)
FirstStage(self) ==
    StreamPuzzle1stCurryArgs_curry_tree_hash(self.recipient, self.clawback_ph, self.end_time)
SecondStage(self) == self.inner_puzzle_hash

\* a claim the ledger took and the replay turned into a successor
AcceptedClaim == last.op = "spend" /\ ~last.clawback /\ last.accepted /\ ReturnsStream

\* C21: along a stream lineage the first-stage commitment h1, which is the
\* self_hash inside h2, stays the same value, and on every claim the
\* successor's second-stage commitment h2 differs from its predecessor's.
C21_StableFirstStage ==
    AcceptedClaim
        => /\ FirstStage(Returned) = FirstStage(Before)
           /\ SecondStage(Returned)[2] = FirstStage(Before)
           /\ SecondStage(Returned)[3] = FirstStage(Before)
           /\ SecondStage(Returned) # SecondStage(Before)

\* the parameters (recipient, clawback hash, start_time, end_time) of which a
\* created coin is the launch: its puzzle hash is their CAT-wrapped commitment
\* with last_payment_time = start_time, its memos are their launch hints
LaunchedParams(cond) ==
    {p \in [recipient : {Alice, Mallory}, clawback_ph : {None, Carol},
            start_time : StartTimes, end_time : EndTimes] :
        /\ cond[1] = "CreateCoin"
        /\ cond[2] = Commitment(AssetId, p.recipient, p.clawback_ph, p.end_time, p.start_time)
        /\ cond[4] = Some(HintNode(get_launch_hints(p.recipient, p.clawback_ph, p.start_time,
                                                    p.end_time)))}

\* a CAT spend that ran was replayed
CatSpendReplayed ==
    /\ last.op = "launch"
    /\ IsSome(CatLayer_parse_puzzle(last.puzzle).val)
    /\ IsOk(last.built.val[2])

\* C22: launch-hint round trip: when a CAT spend creates a coin (the only such
\* coin of the spend) whose puzzle hash is the CAT-wrapped commitment of
\* recipient, clawback hash, end_time and last_payment_time = start_time, and
\* whose memos are get_launch_hints of them, from_parent_spend returns
\* (Some(S), false, 0) with S's recipient, clawback_ph, end_time those,
\* S.last_payment_time = start_time, S.coin.amount the created amount and
\* S.coin.parent_coin_info the spent coin's id.
C22_LaunchHintRoundTrip ==
    CatSpendReplayed
        => \A i \in 1..Len(LaunchOutput) :
              \A p \in LaunchedParams(LaunchOutput[i]) :
                 (\A j \in 1..Len(LaunchOutput) : j # i => LaunchedParams(LaunchOutput[j]) = {})
                    => /\ ReturnsStream
                       /\ last.result.val[2] = FALSE
                       /\ last.result.val[3] = 0
                       /\ Returned.recipient = p.recipient
                       /\ Returned.clawback_ph = p.clawback_ph
                       /\ Returned.end_time = p.end_time
                       /\ Returned.last_payment_time = p.start_time
                       /\ Returned.coin.amount = LaunchOutput[i][3]
                       /\ Returned.coin.parent_coin_info = coin_id(last.coin)

\* the byte strings of a created coin's memos, when they are a list of atoms
MemoBytes(cond) == VecBytes_from_clvm(Unwrap(cond[4])).val
HasMemoBytes(cond) ==
    cond[1] = "CreateCoin" /\ IsSome(cond[4]) /\ IsOk(VecBytes_from_clvm(Unwrap(cond[4])))

\* the fields read at positions skip+1..skip+4 of the memos
FieldsAt(m, skip) ==
    [recipient |-> m[skip + 1],
     clawback_ph |-> IF m[skip + 2] = <<>> THEN None ELSE m[skip + 2],
     last_payment_time |-> u64_from_bytes(m[skip + 3]),
     end_time |-> u64_from_bytes(m[skip + 4])]

\* a launch candidate: 4 memos read from the first or 5 memos read from the
\* second, a 32-byte recipient, a clawback memo empty or of 32 bytes, and the
\* coin's puzzle hash the commitment of the fields read
PositionalCandidate(cond) ==
    /\ HasMemoBytes(cond)
    /\ Len(MemoBytes(cond)) \in {4, 5}
    /\ LET f == FieldsAt(MemoBytes(cond), Len(MemoBytes(cond)) - 4)
       IN  /\ Len(f.recipient) = HashBytes
           /\ f.clawback_ph = None \/ Len(f.clawback_ph) = HashBytes
           /\ cond[2] = Commitment(AssetId, f.recipient, f.clawback_ph, f.end_time,
                                   f.last_payment_time)

\* C23: launch detection reads the memos by position at two widths: of 4
\* memos the fields are memos[0..3] = (recipient, clawback, start_time,
\* end_time), of 5 memos the first is ignored and the fields are memos[1..4];
\* an empty clawback memo is no clawback party; a created coin with any other
\* number of memos is never a launch candidate.
C23_PositionalMemos ==
    (CatSpendReplayed /\ IsOk(last.result))
        => /\ ReturnsStream <=> \E i \in 1..Len(LaunchOutput) : PositionalCandidate(LaunchOutput[i])
           /\ ReturnsStream
                => \E i \in 1..Len(LaunchOutput) :
                      /\ PositionalCandidate(LaunchOutput[i])
                      /\ LET m == MemoBytes(LaunchOutput[i])
                             f == FieldsAt(m, Len(m) - 4)
                         IN  /\ Returned.recipient = f.recipient
                             /\ Returned.clawback_ph = f.clawback_ph
                             /\ Returned.last_payment_time = f.last_payment_time
                             /\ Returned.end_time = f.end_time
                             /\ Returned.coin.amount = LaunchOutput[i][3]
                             /\ Returned.coin.puzzle_hash = LaunchOutput[i][2]

\* a coin with five memos and an empty clawback memo was taken for the launch
C23_Witness ==
    /\ CatSpendReplayed
    /\ ReturnsStream
    /\ Len(LaunchOutput) = 1
    /\ Len(MemoBytes(LaunchOutput[1])) = 5
    /\ MemoBytes(LaunchOutput[1])[3] = <<>>
    /\ Returned.clawback_ph = None
    /\ Returned.recipient = MemoBytes(LaunchOutput[1])[2]
    /\ Returned.end_time = MaxTime

\* the stream a turn of sync_stream's loop got from its replay
ReplayedStream(i) == Unwrap(sync.replayed[i].result.val[1])

\* the ledger's record of a coin
RecordOf(coin) == Unwrap(get_coin_record_by_name(ledger.records, coin_id(coin)))

\* C24: sync_stream replays spends in ledger order, parent before child: the
\* first spend replayed is that of the parent of the coin the stream id names,
\* every later one is that of the coin whose id is the coin_id of the successor
\* the step before returned; no coin is replayed twice, none on the way is
\* left out, and each replay is made of a ledger record alone.
C24_ReplayInLedgerOrder ==
    /\ sync.replayed # <<>>
         => /\ sync.pc # "idle"
            /\ coin_id(sync.replayed[1].coin) =
                  Unwrap(get_coin_record_by_name(ledger.records, Unwrap(ledger.stream_id)))
                      .coin.parent_coin_info
    /\ \A i \in 2..Len(sync.replayed) :
          /\ IsOk(sync.replayed[i - 1].result)
          /\ IsSome(sync.replayed[i - 1].result.val[1])
          /\ coin_id(sync.replayed[i].coin) = coin_id(ReplayedStream(i - 1).coin)
          /\ sync.replayed[i].coin.parent_coin_info = coin_id(sync.replayed[i - 1].coin)
    /\ \A i, j \in 1..Len(sync.replayed) : i # j => sync.replayed[i].coin # sync.replayed[j].coin
    /\ \A i \in 1..Len(sync.replayed) :
          /\ IsSome(get_coin_record_by_name(ledger.records, coin_id(sync.replayed[i].coin)))
          /\ RecordOf(sync.replayed[i].coin).spent
          /\ sync.replayed[i].result =
                from_parent_spend(RecordOf(sync.replayed[i].coin).coin,
                                  RecordOf(sync.replayed[i].coin).puzzle,
                                  RecordOf(sync.replayed[i].coin).solution, overflow_checks)
    /\ (sync.pc = "synced" /\ sync.replayed # <<>>)
          => /\ sync.latest_stream = sync.replayed[Len(sync.replayed)].result.val[1]
             /\ ~RecordOf(Unwrap(sync.latest_stream).coin).spent

\* the launch and two claims were replayed, up to the unspent coin
C24_Witness ==
    /\ sync.pc = "synced"
    /\ Len(sync.replayed) = 3
    /\ sync.replayed[1].coin.parent_coin_info = GenesisId
    /\ ReplayedStream(3).coin.amount < ReplayedStream(2).coin.amount
    /\ ReplayedStream(2).coin.amount < ReplayedStream(1).coin.amount
    /\ ledger.depth = 2

\* the stream of the scenario: 1000 units vesting from 1000 to 4510
ScenarioStream == [coin |-> [amount |-> 1000], last_payment_time |-> 1000, end_time |-> 4510]

\* a claim strictly inside the vesting interval whose product
\* coin.amount * (payment_time - last_payment_time) fits the word
ClaimInsideInterval ==
    /\ last.op = "spend"
    /\ ~last.clawback
    /\ Before.last_payment_time < last.payment_time
    /\ last.payment_time < Before.end_time
    /\ Before.coin.amount * (last.payment_time - Before.last_payment_time) <= U64Max

WithinVesting(self, t) ==
    /\ self.last_payment_time < self.end_time
    /\ self.last_payment_time <= t
    /\ t <= self.end_time

\* C26: for every stream with last_payment_time < end_time and every
\* payment_time from last_payment_time to end_time, amount_to_be_paid returns
\* an amount from 0 to coin.amount, so a solution built by construct_solution
\* never pays more than the balance and coin.amount - to_pay does not underflow.
C26_WithinBalance ==
    /\ (last.op = "quote" /\ WithinVesting(Before, last.payment_time))
          => /\ IsOk(last.result)
             /\ 0 <= last.result.val
             /\ last.result.val <= Before.coin.amount
    /\ (last.op = "spend" /\ WithinVesting(Before, last.payment_time))
          => /\ IsOk(last.built)
             /\ u64_from_bytes(InnerAtoms(last.built)[3][2]) <= Before.coin.amount
             /\ IsOk(claim_new_amount(last.coin,
                        CatSolution_from_clvm(last.built.val).val.inner_puzzle_solution, TRUE))

\* the claim that ends a drain: made at end_time, after the last payment
FinalClaim ==
    /\ last.op = "spend"
    /\ ~last.clawback
    /\ Before.last_payment_time < last.payment_time
    /\ last.payment_time = Before.end_time

\* C27: full drain: a sequence of claims at increasing payment times, each
\* built by construct_solution and replayed by from_parent_spend, that ends
\* with a claim at end_time leaves a final successor with coin.amount = 0, and
\* the to_pay values of the sequence add up to the launched amount.
C27_FullDrain ==
    FinalClaim
        => /\ ReturnsStream
           /\ Returned.coin.amount = 0
           /\ last.accepted
           /\ Sum(paid) = Unwrap(launched)

\* C28: amount_to_be_paid is exact over the whole range of u64: for every
\* coin.amount and every last_payment_time < payment_time <= end_time the
\* product coin.amount * (payment_time - last_payment_time) fits the word, so
\* the result is the mathematical floor, and at end_time it is coin.amount
\* also for the largest amounts.
C28_NoOverflow ==
    (last.op = "quote" /\ ValidClaimTime(Before, last.payment_time))
        => /\ Before.coin.amount * (last.payment_time - Before.last_payment_time) <= U64Max
           /\ last.result = Ok(ExactAmount(Before, last.payment_time))
           /\ last.payment_time = Before.end_time => last.result = Ok(Before.coin.amount)

\* C29: for every replayed claim spend, whatever to_pay, my_amount and
\* payment_time its revealed solution carries, the successor's coin.amount is
\* at most the spent coin's amount: spent.amount - to_pay neither underflows
\* nor wraps into a larger amount.
C29_NoUnderflow ==
    (last.op = "spend" /\ ~last.clawback /\ IsOk(last.built))
        => /\ ReturnsStream
           /\ Returned.coin.amount <= last.coin.amount

\* C30: the first stream sync_stream gets, from the launch spend, is the coin
\* the stream id names: its coin_id is the decoded stream id, so the stream
\* that View, Claim and Clawback work on descends from the requested coin,
\* also when the launch spend created several stream coins.
C30_FirstStreamIsRequested ==
    /\ (sync.replayed # <<>> /\ IsOk(sync.replayed[1].result)
                             /\ IsSome(sync.replayed[1].result.val[1]))
          => coin_id(ReplayedStream(1).coin) = Unwrap(ledger.stream_id)
    /\ IsSome(sync.spend)
          => \/ coin_id(Unwrap(sync.spend).coin) = Unwrap(ledger.stream_id)
             \/ \E i \in 1..Len(sync.replayed) :
                   /\ coin_id(sync.replayed[i].coin) = Unwrap(ledger.stream_id)
                   /\ \E j \in i..Len(sync.replayed) :
                         Unwrap(sync.spend).coin.parent_coin_info = coin_id(sync.replayed[j].coin)

\* the stream sync_stream handed to the command, and what the command made of it
SyncedStream == Unwrap(sync.returned.val)
CommandSpend == Unwrap(sync.spend)

\* C31: in the Claim and Clawback commands the claim_time chosen is strictly
\* greater than the synced stream's last_payment_time, so neither
\* amount_to_be_paid nor the spend is built with a non-increasing timestamp.
C31_ClaimTimeAdvances ==
    IsSome(sync.spend)
        => /\ CommandSpend.claim_time > SyncedStream.last_payment_time
           /\ IsOk(CommandSpend.solution)

\* the smaller of two times
MinTime(a, b) == IF a <= b THEN a ELSE b

\* C32: Claim uses claim_time = min(latest_timestamp - 1, end_time) and
\* Clawback claim_time = min(latest_timestamp + 600, end_time); in both
\* claim_time never exceeds the stream's end_time.
C32_ClaimTimeCapped ==
    IsSome(sync.spend)
        => /\ CommandSpend.claim_time <= SyncedStream.end_time
           /\ (sync.cmd = "claim" /\ CommandSpend.latest_timestamp >= 1)
                 => CommandSpend.claim_time =
                       MinTime(CommandSpend.latest_timestamp - 1, SyncedStream.end_time)
           /\ (sync.cmd = "clawback" /\ CommandSpend.latest_timestamp + ClawbackLead <= U64Max)
                 => CommandSpend.claim_time =
                       MinTime(CommandSpend.latest_timestamp + ClawbackLead, SyncedStream.end_time)

\* a Clawback on a stream after a claim, so late that the lead passes end_time
C32_Witness ==
    /\ IsSome(sync.spend)
    /\ sync.cmd = "clawback"
    /\ Len(sync.replayed) = 2
    /\ SyncedStream.last_payment_time < SyncedStream.end_time
    /\ CommandSpend.latest_timestamp = SyncedStream.end_time
    /\ CommandSpend.claim_time = SyncedStream.end_time
    /\ IsOk(CommandSpend.solution)

\* C33: during launch detection a created coin with malformed memos (a wrong
\* number of memos, a recipient or non-empty clawback memo not of 32 bytes, a
\* memo payload that is no list of byte strings) is skipped without error, so
\* it never keeps a valid stream coin of the same spend from being detected.
C33_MalformedMemosSkipped ==
    CatSpendReplayed
        => /\ IsOk(last.result)
           /\ (\E i \in 1..Len(LaunchOutput) : PositionalCandidate(LaunchOutput[i]))
                 => ReturnsStream

\* a replay that returned an outcome
ReplayOutcome ==
    last.op \in {"launch", "forged", "malformed", "spend"} /\ IsOk(last.result)

\* C34: the outcome of from_parent_spend has one of three shapes:
\* (Some(stream), false, 0) for a launch or a claim, (None, true, to_pay) for a
\* clawback, (None, false, 0) for no match; the clawback flag is never set
\* together with a stream, the paid amount is non-zero only with the flag, and
\* launch detection never sets the flag.
C34_OutcomeShapes ==
    ReplayOutcome
        => LET out == last.result.val
           IN  /\ Len(out) = 3
               /\ out[2] \in BOOLEAN
               /\ \/ IsSome(out[1]) /\ out[2] = FALSE /\ out[3] = 0
                  \/ out[1] = None /\ out[2] = TRUE /\ out[3] \in 0..U64Max
                  \/ out[1] = None /\ out[2] = FALSE /\ out[3] = 0
               /\ out[2] => ~IsSome(out[1])
               /\ out[3] # 0 => out[2]
               /\ last.op \in {"launch", "forged"} => out[2] = FALSE
               /\ out[2] => (last.op = "spend" /\ last.clawback)

\* the second spend of a lineage is a clawback that pays part of the balance
C34_Witness ==
    /\ ReplayOutcome
    /\ last.op = "spend"
    /\ last.result.val[1] = None
    /\ last.result.val[2] = TRUE
    /\ last.result.val[3] > 0
    /\ last.result.val[3] < last.coin.amount
    /\ Len(paid) = 1

\* the created coins of the replayed spend that validate as a stream, by
\* their place in the conditions
Validating == {i \in 1..Len(LaunchOutput) : PositionalCandidate(LaunchOutput[i])}

\* C35: when a launch spend creates several coins that each validate as a
\* stream, from_parent_spend returns exactly one of them, the last validating
\* CREATE_COIN in the order of the conditions; the earlier ones are dropped.
C35_LastValidatingWins ==
    (CatSpendReplayed /\ IsOk(last.result) /\ Validating # {})
        => LET k == CHOOSE i \in Validating : \A j \in Validating : j <= i
               m == MemoBytes(LaunchOutput[k])
               f == FieldsAt(m, Len(m) - 4)
           IN  /\ ReturnsStream
               /\ Returned.coin = Coin_new(coin_id(last.coin), LaunchOutput[k][2], LaunchOutput[k][3])
               /\ Returned.recipient = f.recipient
               /\ Returned.clawback_ph = f.clawback_ph
               /\ Returned.end_time = f.end_time
               /\ Returned.last_payment_time = f.last_payment_time

\* two stream coins of different recipients and amounts were created, the
\* first with five memos
C35_Witness ==
    /\ CatSpendReplayed
    /\ ReturnsStream
    /\ Validating = {1, 2}
    /\ Len(MemoBytes(LaunchOutput[1])) = 5
    /\ LaunchOutput[1][3] # LaunchOutput[2][3]
    /\ Returned.recipient = Mallory
    /\ Returned.coin.amount = LaunchOutput[2][3]

\* the two-stage commitment of a stream's own fields
OwnCommitment(self) ==
    LET h1 == <<"curry", STREAM_PUZZLE_HASH, self.recipient, self.clawback_ph,
                u64_to_bytes(self.end_time)>>
    IN  <<"curry", h1, h1, u64_to_bytes(self.last_payment_time)>>

\* C36: every StreamedCat built by StreamedCat::new or returned by
\* from_parent_spend has inner_puzzle_hash equal to the two-stage commitment of
\* its own recipient, clawback_ph, end_time and last_payment_time; of those
\* from_parent_spend returns, coin.puzzle_hash is the CAT wrapping of that
\* inner hash under the stream's asset_id.
C36_StreamCommitsToItself ==
    /\ ReturnsStream
         => /\ Returned.inner_puzzle_hash = OwnCommitment(Returned)
            /\ Returned.coin.puzzle_hash = <<"cat", Returned.asset_id, Returned.inner_puzzle_hash>>
    /\ IsSome(stream)
         => /\ Unwrap(stream).inner_puzzle_hash = OwnCommitment(Unwrap(stream))
            /\ Unwrap(stream).coin.puzzle_hash =
                  <<"cat", Unwrap(stream).asset_id, OwnCommitment(Unwrap(stream))>>

\* the successor of a claim at end_time on a stream launched with five memos
\* or four, with a clawback hash
C36_Witness ==
    /\ last.op = "spend"
    /\ ReturnsStream
    /\ last.accepted
    /\ Returned.clawback_ph = Carol
    /\ Returned.last_payment_time = Returned.end_time
    /\ Returned.end_time = MaxTime
    /\ Returned.coin.amount = 0
    /\ Returned.inner_puzzle_hash # Before.inner_puzzle_hash

\* the coin a lineage proof describes, for a CAT of the asset
ProvenCoin(proof, asset_id) ==
    Coin_new(proof.parent_parent_coin_info,
             <<"cat", asset_id, proof.parent_inner_puzzle_hash>>,
             proof.parent_amount)

\* C37: the lineage proof of every stream from_parent_spend returns describes
\* the spent coin: its parent_coin_info, its amount and the inner puzzle hash
\* of its puzzle (the spent stream layer's commitment for a claim, the CAT's
\* inner puzzle hash for a launch); so after any claims the proof is that of
\* the coin just before in the lineage.
C37_ProofOfSpentCoin ==
    ReturnsStream
        => /\ Returned.proof.parent_parent_coin_info = last.coin.parent_coin_info
           /\ Returned.proof.parent_amount = last.coin.amount
           /\ last.op = "spend" => Returned.proof.parent_inner_puzzle_hash = OwnCommitment(Before)
           /\ last.op = "launch" => Returned.proof.parent_inner_puzzle_hash = tree_hash(P2Puzzle)
           /\ ProvenCoin(Returned.proof, Returned.asset_id) = last.coin
           /\ Returned.coin.parent_coin_info =
                 <<"coin", last.coin.parent_coin_info, last.coin.puzzle_hash, last.coin.amount>>

\* the proof after the second claim is that of the first successor, which
\* held less than the launched coin
C37_Witness ==
    /\ last.op = "spend"
    /\ ReturnsStream
    /\ last.accepted
    /\ Len(paid) = 2
    /\ Returned.proof.parent_amount = Before.coin.amount
    /\ Returned.proof.parent_amount < Unwrap(launched)
    /\ Returned.proof.parent_amount > Returned.coin.amount
    /\ Returned.proof.parent_parent_coin_info # GenesisId

\* sync_stream has returned and no command has yet acted on what it returned
SyncReturned == sync.pc = "returned" \/ (sync.pc = "done" /\ sync.cmd = "view")

\* sync_stream returned from inside its loop
ReturnedInLoop == sync.pc = "returned" /\ sync.cmd = "none"

LastReplay == sync.replayed[Len(sync.replayed)].result

\* the lookup had no record of the coin asked for
LookupFailed ==
    ReturnedInLoop /\ ~IsSome(get_coin_record_by_name(ledger.records, sync.latest_coin_id))

\* the last spend replayed was not a stream's: its puzzle is not the stream's
\* and none of the coins it created validates as a launch
NotAStream ==
    /\ ReturnedInLoop /\ sync.replayed # <<>>
    /\ LET record == RecordOf(sync.replayed[Len(sync.replayed)].coin)
           output == run_puzzle(record.puzzle, record.solution)
       IN  /\ ~IsSome(CatStreamLayer_parse_puzzle(record.puzzle).val)
           /\ IsOk(output)
           /\ \A i \in 1..Len(output.val) : ~PositionalCandidate(output.val[i])

\* the last spend replayed was a clawback
Clawbacked ==
    /\ ReturnedInLoop /\ sync.replayed # <<>>
    /\ IsOk(LastReplay) /\ ~IsSome(LastReplay.val[1]) /\ LastReplay.val[2]

\* what sync_stream returns: a stream whose coin the lookup holds unspent, and
\* None in the three cases
SyncReturnsUnspent ==
    /\ (SyncReturned /\ IsOk(sync.returned) /\ IsSome(sync.returned.val)) =>
            LET record == get_coin_record_by_name(ledger.records, coin_id(SyncedStream.coin))
            IN  /\ IsSome(record)
                /\ ~Unwrap(record).spent
                /\ Unwrap(record).coin = SyncedStream.coin
    /\ (LookupFailed \/ NotAStream \/ Clawbacked) => sync.returned = Ok(None)

\* the turns the loop has taken: the first, which steps to the parent, and one
\* for each spend replayed
SyncTurns == Len(sync.replayed) + (IF sync.first_run THEN 0 ELSE 1)

\* the loop replays spent coins of the lookup, and none of them twice
SyncTurnsBounded ==
    /\ \A i \in 1..Len(sync.replayed) :
           /\ IsSome(get_coin_record_by_name(ledger.records, coin_id(sync.replayed[i].coin)))
           /\ RecordOf(sync.replayed[i].coin).spent
           /\ \A j \in 1..Len(sync.replayed) :
                  sync.replayed[i].coin = sync.replayed[j].coin => i = j
    /\ SyncTurns <= Len(ledger.records) + 1

\* C38: sync_stream terminates on every lineage: its loop replays spent coins
\* of the lookup, none twice, so its turns are at most the records plus one;
\* the stream it returns sits on the coin the lookup holds unspent under that
\* coin's id; it returns None when a lookup fails, when a spend is not a
\* stream's, and after a clawback
C38_SyncTerminates == SyncTurnsBounded /\ SyncReturnsUnspent

\* the amount typed and the unit asked for
Typed == Unwrap(last.before)
Unit == Pow10(IF Typed.is_cat THEN CatDecimals ELSE XchDecimals)

\* C39: parse_amount rejects every text without a '.'; of an accepted text it
\* returns whole * U + f with U the unit (1000 for a CAT, 10^12 for XCH), whole
\* the number before the '.' and f the digits after it padded with zeros on
\* the right to the unit's decimals, and f < U always: the fractional part
\* never adds a whole unit or more
C39_FractionBelowUnit ==
    last.op = "parse_amount"
        => /\ ~contains_dot(Typed.amount) => ~IsOk(last.result)
           /\ IsOk(last.result)
                 => LET whole == DecimalValue(SelectSeq(split_once(Typed.amount)[1], IsDigit))
                        f == last.result.val - whole * Unit
                    IN  0 <= f /\ f < Unit

====
